---- MODULE Spec2Model ----
(***************************************************************************)
(* Terminally-mcp: the session / command execution core.                   *)
(*                                                                         *)
(* KeyMutex (utils/mutex.ts) and TmuxManager (services/tmuxManager.ts, the *)
(* variant that returns {output, exit_code, timed_out}) as a state machine.*)
(* Every `await` of the code is a step boundary.  The tmux server and the  *)
(* bash running in each window are the environment: a window holds a pane  *)
(* (lines of text), a queue of typed-ahead input, the foreground command   *)
(* and the shell's last exit status `$?`.                                  *)
(*                                                                         *)
(* Text is modelled as sequences of tokens; a token is a record            *)
(* [k |-> kind, v |-> value] standing for a fixed piece of text, and the   *)
(* string tests of the code (includes, trim, ===, the exit-code regex) are *)
(* computed on the tokens.                                                 *)
(***************************************************************************)
EXTENDS Integers, Sequences, FiniteSets, TLC

\* Number of tool calls issued in one behaviour.
MaxOps == 3
\* Number of execute_command calls among them.
MaxExecs == 2
\* Largest number of poll iterations that fit in the time budget of a call.
MaxPolls == 2

Ops == 1..MaxOps
\* Window ids handed out by tmux for new-window (@1, @2); @0 is the window
\* made by new-session.
Windows == {1, 2}

VARIABLES
  initialized,  \* TmuxManager.initialized
  alive,        \* tmux: window id -> "none" | "live" | "closed"
  prompt,       \* environment: which prompt the login shell prints
  shell,        \* tmux+bash: window id -> [pane, q, fg, status, done]
  tails,        \* KeyMutex.tails: key -> promise reference
  prev,         \* runExclusive: the `prev` promise of each caller
  nextResolved, \* runExclusive: the caller's `next` promise is resolved
  tailResolved, \* the promise `prev.then(() => next)` of the caller is resolved
  pc,           \* position of each call
  arg,          \* arguments of each call: window id, command, ...
  polls,        \* poll iterations done by the call
  timedOut,     \* local `timedOut` of executeCommand
  result,       \* what the caller's promise settled with
  keylog,       \* tmux: window id -> the send-keys calls received, in order,
                \* each with the number of pane lines there were at the time
  session,      \* tmux: the session mcp-terminally exists (with its window @0)
  names,        \* tmux: window id -> the window's name
  stdout        \* createTab: what new-window printed for the call (0: nothing yet)

vars == <<initialized, alive, prompt, shell, tails, prev, nextResolved,
          tailResolved, pc, arg, polls, timedOut, result, keylog,
          session, names, stdout>>
\* The session's windows as tmux lists them, and the output of new-window.
dirvars == <<session, names, stdout>>

(***************************************************************************)
(* Text as tokens.                                                         *)
(***************************************************************************)
Tok(k, v) == [k |-> k, v |-> v]

\* One value made when the manager is constructed.
UuidOnce(i) == "0"
\* uuidv4(): a fresh value for every call; the call's number stands for it.
Uuid(i) == ToString(i)
\* `MCP_START_MARKER_${uuidv4()}`
StartMarker(i) == Tok("S", Uuid(i))
\* `MCP_END_MARKER_${uuidv4()}`
EndMarker(i) == Tok("E", Uuid(i))
\* `_EXIT_CODE:`
ExitCodeMarker == Tok("xc", "_EXIT_CODE:")

\* The prompts a login bash may print; the second and third are the ones the
\* output filter of executeCommand knows.
Prompts == {"bash-5.1$", "danielsteigman@MacBook $", "(base) user$"}
PS == Tok("ps", prompt)

\* The commands callers run in this model.
Commands == {"echo hello", "true", "false", "echo $?",
             "sleep 1; echo done; false", "stty -echo; sleep 1; stty echo"}

\* Lines printed by the command that fills more than one screen.
SeqLines == 30
\* The commands callers start with start_process.
ProcessCommands == {"sleep 30"}

\* The command is a shell builtin that is finished by the time the 100 ms
\* sleep after its send-keys is over.
Instant(c) == c \in {"echo hello", "true", "false", "echo $?", "seq 30"}
\* The terminal echoes typed-ahead input while the command is in the
\* foreground (the tty is in its normal cooked, echoing mode).
EchoOn(c) == c \notin {"stty -echo; sleep 1; stty echo",
                         "stty -echo; trap '' INT; sleep 30"}
\* The command runs with SIGINT ignored.
IgnoresInt(c) == c = "stty -echo; trap '' INT; sleep 30"
\* The lines the command prints, given the shell's `$?` when it starts.
Output(c, st) ==
  CASE c = "echo hello" -> << <<Tok("txt", "hello")>> >>
    [] c = "echo $?" -> << <<Tok("num", ToString(st))>> >>
    [] c = "sleep 1; echo done; false" -> << <<Tok("txt", "done")>> >>
    [] c = "seq 30" -> [k \in 1..SeqLines |-> <<Tok("num", ToString(k))>>]
    [] OTHER -> << >>
\* The exit status the command ends with.
ExitStatus(c) == IF c \in {"false", "sleep 1; echo done; false"} THEN 1 ELSE 0

\* String tests of the code, on one token.
HasDollar(t) == t.k \in {"ps", "var"} \/ (t.k = "cmd" /\ t.v = "echo $?")
HasDaniel(t) == t.k = "ps" /\ t.v = "danielsteigman@MacBook $"
StartsBase(t) == t.k = "ps" /\ t.v = "(base) user$"
HasEcho(t) == t.k = "echoq" \/ (t.k = "cmd" /\ t.v \in {"echo hello", "echo $?", "sleep 1; echo done; false", "stty -echo; sleep 1; stty echo"})
HasMCP(t) == t.k \in {"S", "E"}
HasPrintf(t) == FALSE

\* line.includes(x) for a piece of text x that is one token
Includes(line, t) == \E k \in 1..Len(line) : line[k] = t
AnyTok(line, P(_)) == \E k \in 1..Len(line) : P(line[k])

\* String.prototype.trim on a line: whitespace at both ends goes.
IsWs(t) == t.k = "ws"
RECURSIVE TrimStart(_)
TrimStart(line) ==
  IF line # << >> /\ IsWs(Head(line)) THEN TrimStart(Tail(line)) ELSE line
RECURSIVE TrimEnd(_)
TrimEnd(line) ==
  IF line # << >> /\ IsWs(line[Len(line)])
    THEN TrimEnd(SubSeq(line, 1, Len(line) - 1)) ELSE line
Trim(line) == TrimEnd(TrimStart(line))

\* parseInt(s, 10) on a string of digits
ParseInt(s) == CHOOSE n \in 0..255 : ToString(n) = s

(***************************************************************************)
(* The shell of one window (bash under tmux).                              *)
(***************************************************************************)
NoFg == [op |-> 0, cmd |-> "none"]
\* new-window: a fresh shell at its first prompt
\* partial: the text typed on the current line and not yet entered;
\* exited: the shell has run `exit`, so tmux has removed the window.
NewShell == [pane |-> << <<PS>> >>, q |-> << >>, fg |-> NoFg, status |-> 0,
             done |-> {}, partial |-> << >>, exited |-> FALSE]

\* What `echo 'a'b$?` prints: quotes removed, `$?` expanded.
RECURSIVE Expand(_, _)
Expand(text, st) ==
  IF text = << >> THEN << >>
  ELSE LET t == Head(text) IN
       IF t.k \in {"echoq", "q"} THEN Expand(Tail(text), st)
       ELSE IF t.k = "var" THEN <<Tok("num", ToString(st))>> \o Expand(Tail(text), st)
       ELSE <<t>> \o Expand(Tail(text), st)

ReplaceLast(pane, line) == SubSeq(pane, 1, Len(pane) - 1) \o <<line>>

\* bash at its prompt reads one line: readline shows it after the prompt,
\* then the line runs.  ln = [op, text].
ExecLine(sh, ln) ==
  LET shown == ReplaceLast(sh.pane, <<PS>> \o ln.text)
      first == Head(ln.text)
  IN IF ln.text = << >>
       THEN [sh EXCEPT !.pane = shown \o << <<PS>> >>]
     ELSE IF first.k = "exit"
       THEN [sh EXCEPT !.pane = shown, !.exited = TRUE]
     ELSE IF first.k = "cmd" /\ Len(ln.text) > 1
       THEN [sh EXCEPT !.pane = shown \o << <<Tok("err", "error")>>, <<PS>> >>,
                       !.status = 127]
     ELSE IF first.k = "echoq"
       THEN [sh EXCEPT !.pane = shown \o <<Expand(ln.text, sh.status)>> \o << <<PS>> >>,
                       !.status = 0]
     ELSE IF first.k = "cmd" /\ Instant(first.v)
       THEN [sh EXCEPT !.pane = shown \o Output(first.v, sh.status) \o << <<PS>> >>,
                       !.status = ExitStatus(first.v),
                       !.done = @ \cup {<<ln.op, ExitStatus(first.v)>>}]
     ELSE [sh EXCEPT !.pane = shown, !.fg = [op |-> ln.op, cmd |-> first.v]]

\* bash reads the typed-ahead lines until one of them stays in the foreground.
RECURSIVE Drain(_)
Drain(sh) ==
  IF sh.fg # NoFg \/ sh.q = << >> \/ sh.exited THEN sh
  ELSE Drain(ExecLine([sh EXCEPT !.q = Tail(@)], Head(sh.q)))

\* send-keys <text> Enter: bash takes the line at once when it is at its
\* prompt; under a foreground command the tty echoes it and it waits.
\* The line entered is what was typed on it before, then the text.
Type(sh, ln) ==
  LET full == [op |-> ln.op, text |-> sh.partial \o ln.text]
      base == [sh EXCEPT !.partial = << >>]
  IN IF sh.fg = NoFg THEN ExecLine(base, full)
     ELSE [base EXCEPT !.pane = IF ~EchoOn(sh.fg.cmd) THEN @
                                ELSE IF sh.partial # << >> THEN ReplaceLast(@, full.text)
                                ELSE Append(@, ln.text),
                       !.q = Append(@, full)]

\* send-keys <text> without Enter: the text stays on the current line.
TypeText(sh, text) ==
  IF sh.fg = NoFg
    THEN [sh EXCEPT !.pane = ReplaceLast(@, <<PS>> \o sh.partial \o text),
                    !.partial = @ \o text]
    ELSE [sh EXCEPT !.pane = IF ~EchoOn(sh.fg.cmd) THEN @
                               ELSE IF sh.partial # << >> THEN ReplaceLast(@, sh.partial \o text)
                               ELSE Append(@, text),
                    !.partial = @ \o text]

\* The foreground command ends by itself.
FinishFg(sh) ==
  Drain([sh EXCEPT !.pane = @ \o Output(sh.fg.cmd, sh.status) \o << <<PS>> >>,
                   !.status = ExitStatus(sh.fg.cmd),
                   !.done = @ \cup {<<sh.fg.op, ExitStatus(sh.fg.cmd)>>},
                   !.fg = NoFg])

\* The key never reaches the pane.
InterruptLost(sh) == sh
\* send-keys C-c: SIGINT to the foreground command, or to readline.  The
\* terminal that turns the key into the signal also discards the input that
\* was typed ahead and not read yet.
Interrupt(sh) ==
  IF sh.fg # NoFg /\ IgnoresInt(sh.fg.cmd)
    THEN [sh EXCEPT !.q = << >>, !.partial = << >>]
  ELSE IF sh.fg # NoFg
    THEN [sh EXCEPT !.pane = @ \o << <<Tok("ctl", "^C")>>, <<PS>> >>,
                    !.status = 130,
                    !.done = @ \cup {<<sh.fg.op, 130>>},
                    !.fg = NoFg,
                    !.q = << >>,
                    !.partial = << >>]
    ELSE [sh EXCEPT !.pane = ReplaceLast(@, <<PS>> \o sh.partial \o <<Tok("ctl", "^C")>>)
                               \o << <<PS>> >>,
                    !.status = 130,
                    !.partial = << >>]

\* send-keys C-\: SIGQUIT to the foreground command; bash at its prompt
\* ignores it.
Quit(sh) ==
  IF sh.fg # NoFg
    THEN [sh EXCEPT !.pane = @ \o << <<Tok("ctl", "^\\Quit")>>, <<PS>> >>,
                    !.status = 131,
                    !.done = @ \cup {<<sh.fg.op, 131>>},
                    !.fg = NoFg,
                    !.q = << >>,
                    !.partial = << >>]
    ELSE sh

\* Rows of a window of a detached session (tmux default-size 80x24).
PaneHeight == 24
\* capture-pane -p -S -<n>, then split('\n'): the last n lines of the
\* history and every row of the visible screen, the unused rows as empty
\* lines.
CaptureSince(sh, n) ==
  LET len == Len(sh.pane)
      hist == IF len > PaneHeight THEN len - PaneHeight ELSE 0
      from == IF n > 0 /\ hist > n THEN hist - n + 1 ELSE 1
      unused == IF len < PaneHeight THEN PaneHeight - len ELSE 0
  IN SubSeq(sh.pane, from, len) \o [k \in 1..unused |-> << >>] \o << << >> >>

\* capture-pane -J -p -S - -E -, then split('\n'): the text ends with a
\* newline, so the last element is the empty string.
Capture(sh) == sh.pane \o << << >> >>

(***************************************************************************)
(* executeCommand: parsing the captured pane.                              *)
(***************************************************************************)
\* The least index of a set of indices; 0 when there is none (JS: -1).
Least(S) == IF S = {} THEN 0 ELSE CHOOSE k \in S : \A j \in S : k <= j
\* The greatest index of a set of indices; 0 when there is none.
Greatest(S) == IF S = {} THEN 0 ELSE CHOOSE k \in S : \A j \in S : j <= k

\* The first line that is a start marker of any call.
StartIdxAnyCall(lines, i) ==
  Least({k \in 1..Len(lines) :
           Len(Trim(lines[k])) = 1 /\ Trim(lines[k])[1].k = "S"})
\* lines.findIndex((l) => l.trim() === startMarker)
StartIdx(lines, i) ==
  Least({k \in 1..Len(lines) : Trim(lines[k]) = <<StartMarker(i)>>})

\* The loop has no break: the last line with the end marker is taken.
EndIdxLast(lines, i) ==
  Greatest({k \in (StartIdx(lines, i) + 1)..Len(lines) :
              Includes(lines[k], EndMarker(i))})
\* for (let i = startIdx + 1; ...) if (lines[i].includes(endMarker)) ...
EndIdx(lines, i) ==
  Least({k \in (StartIdx(lines, i) + 1)..Len(lines) :
           Includes(lines[k], EndMarker(i))})

\* lines[i].match(new RegExp(`${exitCodeMarker}(\\d+)`)): the digits that
\* follow the leftmost `_EXIT_CODE:` that has digits after it; "" if no match.
RECURSIVE ExitCodeMatch(_)
ExitCodeMatch(line) ==
  IF Len(line) < 2 THEN ""
  ELSE IF line[1] = ExitCodeMarker /\ line[2].k = "num" THEN line[2].v
  ELSE ExitCodeMatch(Tail(line))

\* let exitCode = 0; ... exitCode = parseInt(exitCodeMatch[1], 10)
ExitCode(lines, i) ==
  LET e == EndIdx(lines, i)
  IN IF e # 0 /\ ExitCodeMatch(lines[e]) # "" THEN ParseInt(ExitCodeMatch(lines[e]))
     ELSE 0

\* The predicate of payloadLines.filter(...)
KeepLine(line, command) ==
  LET trimmed == Trim(line)
  IN /\ trimmed # << >>
     /\ ~(AnyTok(trimmed, HasDollar) /\ AnyTok(trimmed, HasDaniel))
     /\ ~(StartsBase(Head(trimmed)) /\ AnyTok(trimmed, HasDollar))
     /\ trimmed # <<Tok("cmd", command)>>
     /\ ~(AnyTok(trimmed, HasPrintf) /\ AnyTok(trimmed, HasMCP))
     /\ ~(AnyTok(trimmed, HasEcho) /\ AnyTok(trimmed, HasMCP))

\* payloadLines.filter(...)
FilterLines(lines, command) ==
  LET Keep(line) == KeepLine(line, command) IN SelectSeq(lines, Keep)

\* text.trim() on a text of several lines: blank lines at both ends go, and
\* the whitespace at the start of the first and the end of the last line.
Blank(line) == Trim(line) = << >>
TrimText(lines) ==
  LET solid == {k \in 1..Len(lines) : ~Blank(lines[k])}
      from == Least(solid)
      n == IF solid = {} THEN 0 ELSE Greatest(solid) - from + 1
  IN [k \in 1..n |-> IF k = 1 /\ k = n THEN Trim(lines[from])
                     ELSE IF k = 1 THEN TrimStart(lines[from])
                     ELSE IF k = n THEN TrimEnd(lines[from + k - 1])
                     ELSE lines[from + k - 1]]

\* text.replace(/\x1b\[[0-9;]*[a-zA-Z]/g, '')
RECURSIVE StripAnsiLine(_)
StripAnsiLine(line) ==
  IF line = << >> THEN << >>
  ELSE IF Head(line).k = "ansi" THEN StripAnsiLine(Tail(line))
  ELSE <<Head(line)>> \o StripAnsiLine(Tail(line))
stripAnsiSequences(lines) == [k \in 1..Len(lines) |-> StripAnsiLine(lines[k])]

\* What a call settles with.  kind, code: "ok", or the error and the ErrorCode
\* of the McpError the tool handler throws for it.  output .. truncated: the
\* fields of the returned object.  start_line, end_line, seen_line record
\* which lines of the dump executeCommand took as its start line, as its end
\* line, and as the line that ended the poll (0: none).
NoResult == [kind |-> "none", code |-> "", output |-> << >>, exit_code |-> 0,
             timed_out |-> FALSE, returned_lines |-> 0, truncated |-> FALSE,
             started |-> FALSE, success |-> FALSE,
             start_line |-> 0, end_line |-> 0, seen_line |-> 0,
             window_id |-> 0, name |-> << >>, tabs |-> << >>, held |-> 0]
\* The handler returns an object that describes the error.
McpErrorReturned(msg, code) == [NoResult EXCEPT !.kind = "ok", !.code = ""]
\* throw new McpError(code, msg): the request is answered with an RPC error.
McpError(msg, code) == [NoResult EXCEPT !.kind = msg, !.code = code]
\* A manager method throws; the handler's catch wraps the error in
\* McpError(ErrorCode.InternalError, ...).
ErrorResult(msg) == McpError(msg, "InternalError")

\* The value of a set of one element: a value that is computed once and
\* then used under a name.
The(S) == CHOOSE x \in S : TRUE

\* Lines 609-662: what executeCommand returns for the pane dump `lines`.
ParseDump(lines, i, command, stripAnsi, to) ==
  LET s == StartIdx(lines, i)
      e == EndIdx(lines, i)
      payloadLines == IF e # 0 THEN SubSeq(lines, s + 1, e - 1)
                      ELSE SubSeq(lines, s + 1, Len(lines))
      seen == IF to THEN 0
              ELSE Least({k \in 1..Len(lines) : Includes(lines[k], EndMarker(i))})
  IN IF s = 0
       THEN [NoResult EXCEPT !.kind = "ok", !.output = << >>,
               !.exit_code = IF to THEN 130 ELSE 0, !.timed_out = to,
               !.end_line = e, !.seen_line = seen]
     ELSE The({[NoResult EXCEPT !.kind = "ok",
                  !.output = IF stripAnsi THEN stripAnsiSequences(payload) ELSE payload,
                  !.exit_code = ExitCode(lines, i), !.timed_out = to,
                  !.start_line = s, !.end_line = e, !.seen_line = seen] :
               payload \in {TrimText(kept) :
                             kept \in {FilterLines(payloadLines, command)}}})

(***************************************************************************)
(* KeyMutex.runExclusive                                                   *)
(***************************************************************************)
\* References to promises: Promise.resolve(), the `next` of a caller, the
\* chained promise `prev.then(() => next)` of a caller.
NoPromise == [p |-> "none", op |-> 0]
Resolved == [p |-> "resolved", op |-> 0]
NextRef(i) == [p |-> "next", op |-> i]
TailRef(i) == [p |-> "tail", op |-> i]

\* The promise kept in the map never resolves.
IsResolvedNextOnly(ref) ==
  \/ ref.p = "resolved"
  \/ ref.p = "next" /\ nextResolved[ref.op]

IsResolved(ref) ==
  \/ ref.p = "resolved"
  \/ ref.p = "next" /\ nextResolved[ref.op]
  \/ ref.p = "tail" /\ tailResolved[ref.op]

\* The keys the map `tails` is used with: the window ids, and 0 for a
\* window id that is undefined.
Keys == Windows \cup {0}

\* One lock for the whole manager instead of one per window.
MutexKeyGlobal(w) == 1
\* The key the manager passes to runExclusive for a window id.
MutexKey(w) == w

\* const prev = this.tails.get(key) ?? Promise.resolve();
PrevOf(key) == IF tails[key] = NoPromise THEN Resolved ELSE tails[key]

\* fn started without `await prev`.
MayEnterNoWait(i) == TRUE
\* `await prev` lets the caller go on.
MayEnter(i) == IsResolved(prev[i])

\* resolveNext() after `await fn()` without try/finally: skipped on a throw.
ReleasedByReturnOnly(threw) == ~threw
\* finally { resolveNext!(); ... }: runs whether fn returned or threw.
ReleasedBy(threw) == TRUE

\* The arguments of a call; `behind` records that the call was made while
\* an earlier call on the same window id had not settled yet.
\* has: the fields the request carries; noArguments: the request has no
\* `arguments` at all; appendNewline, signal: the values the handlers of
\* start_process and stop_process pass on; wasLive records whether the
\* window could be reached when the call was made; cwd: the directory
\* option of createTab, by what the file system holds; newSession records what
\* the new-session of the call's startServer met: "created" or "duplicate".
NoArg == [kind |-> "none", w |-> 0, command |-> "none", stripAnsi |-> FALSE,
          lines |-> 0, behind |-> FALSE, has |-> {}, noArguments |-> FALSE,
          appendNewline |-> TRUE, signal |-> "SIGINT", wasLive |-> FALSE,
          name |-> << >>, after |-> {}, newSession |-> "none", cwd |-> "none"]
StripChoices == {FALSE}
\* read_logs_from_tab: `lines` (default 500)
LinesChoices == {500}

Fn == {"sendStart", "sendCmd", "sendEnd", "poll", "interrupt", "finalCapture",
       "readCapture", "startText", "startEnter", "stopKey", "stopExit"}
Called(i) == pc[i] # "idle"
Running(i) == pc[i] \in Fn
Settled(i) == pc[i] \in {"cleanup", "done"}
Key(i) == MutexKey(arg[i].w)

\* fn returned or threw: the promise of runExclusive settles with `res`,
\* after the finally block has released the lock.
\* The locals of fn (the poll count, timedOut) end with it.
Settle(i, res, threw) ==
  /\ result' = [result EXCEPT ![i] = res]
  /\ nextResolved' = [nextResolved EXCEPT ![i] = ReleasedBy(threw)]
  /\ pc' = [pc EXCEPT ![i] = "cleanup"]
  /\ polls' = [polls EXCEPT ![i] = 0]
  /\ timedOut' = [timedOut EXCEPT ![i] = FALSE]

\* catch (error) { throw new Error(...) } inside fn
Throw(i) == Settle(i, ErrorResult("error"), TRUE)

\* tmux(args) resolves also when the target window is gone.
TmuxOKAnyWindow(w) == initialized
\* tmux(args) resolves: the server runs and the target window exists.
TmuxOK(w) ==
  initialized /\ w \in Windows /\ alive[w] = "live" /\ ~shell[w].exited

\* send-keys without -t: the keys go to the session's current window.
TargetCurrent(w) == 1
\* send-keys -t windowId: the window that receives the keys.
Target(w) == w

\* A capture that leaves `-t` out reads the session's first window.
CaptureTargetDefault(w) == 1
\* capture-pane ... -t windowId: the window whose pane is dumped.
CaptureTarget(w) == w

\* prev.then(() => { next }): the callback returns nothing, so the chained
\* promise resolves with prev alone.
TailReadyWithoutNext(i) ==
  /\ prev[i] # NoPromise
  /\ ~tailResolved[i]
  /\ IsResolved(prev[i])

\* The promise prev.then(() => next) of caller i can resolve.
TailReady(i) ==
  /\ prev[i] # NoPromise
  /\ ~tailResolved[i]
  /\ IsResolved(prev[i])
  /\ IsResolved(NextRef(i))

\* A promise reaction is queued.  Node runs the microtask queue to its end
\* before it takes the next event (a finished subprocess, a timer, a request),
\* and in the order the reactions were queued: resolveNext() queues the
\* reaction that resolves the chained promise, the finally block then queues
\* the cleanup, and the resolved chained promise queues the continuation of
\* the next caller's `await prev`.
CleanupPending == \E i \in Ops : pc[i] = "cleanup"
MicrotaskPending ==
  \/ CleanupPending
  \/ \E i \in Ops : \/ pc[i] = "waiting" /\ MayEnter(i)
                    \/ TailReady(i)

(***************************************************************************)
(* Actions                                                                 *)
(***************************************************************************)
Init ==
  /\ initialized = FALSE
  /\ alive = [w \in Windows |-> "none"]
  /\ prompt \in Prompts
  /\ shell = [w \in Windows |-> NewShell]
  /\ tails = [k \in Keys |-> NoPromise]
  /\ prev = [i \in Ops |-> NoPromise]
  /\ nextResolved = [i \in Ops |-> FALSE]
  /\ tailResolved = [i \in Ops |-> FALSE]
  /\ pc = [i \in Ops |-> "idle"]
  /\ arg = [i \in Ops |-> NoArg]
  /\ polls = [i \in Ops |-> 0]
  /\ timedOut = [i \in Ops |-> FALSE]
  /\ result = [i \in Ops |-> NoResult]
  /\ keylog = [w \in Windows |-> << >>]
  /\ session = FALSE
  /\ names = [w \in Windows |-> << >>]
  /\ stdout = [i \in Ops |-> 0]

\* `tab-${Date.now()}`: the name createTab gives a window when none is asked for.
GeneratedName == <<"tab">>

\* createTab: starts the server on first use, then new-window; tmux numbers
\* the windows in the order they are made.
CreateTab(w) ==
  /\ ~MicrotaskPending
  /\ alive[w] = "none"
  /\ \A v \in Windows : v < w => alive[v] # "none"
  /\ initialized' = TRUE
  /\ alive' = [alive EXCEPT ![w] = "live"]
  /\ shell' = [shell EXCEPT ![w] = NewShell]
  /\ UNCHANGED <<prompt, tails, prev, nextResolved, tailResolved, pc, arg,
                 polls, timedOut, result, keylog>>
  /\ session' = TRUE
  /\ names' = [names EXCEPT ![w] = GeneratedName]
  /\ UNCHANGED stdout

\* closeTab: kill-window
CloseTab(w) ==
  /\ ~MicrotaskPending
  /\ initialized
  /\ alive[w] = "live"
  /\ alive' = [alive EXCEPT ![w] = "closed"]
  /\ UNCHANGED <<initialized, prompt, shell, tails, prev, nextResolved,
                 tailResolved, pc, arg, polls, timedOut, result, keylog>>
  /\ UNCHANGED dirvars

\* The check is left out: the method goes on whatever the state is.
NotInitializedUnchecked == FALSE
\* if (!this.initialized) at the head of a manager method
NotInitialized == ~initialized

\* A manager method that works under the window's lock, up to `await prev`:
\* the initialized check and the synchronous part of runExclusive.  Calls
\* are numbered in the order they are made.
Call(i, a) ==
  /\ ~MicrotaskPending
  /\ pc[i] = "idle"
  /\ \A j \in Ops : j < i => Called(j)
  /\ arg' = [arg EXCEPT ![i] =
               [a EXCEPT !.behind = \E j \in Ops : /\ arg[j].w = a.w
                                                   /\ pc[j] \notin {"idle", "done"},
                         !.wasLive = TmuxOK(a.w)]]
  /\ IF NotInitialized
       THEN /\ pc' = [pc EXCEPT ![i] = "done"]
            /\ result' = [result EXCEPT ![i] = ErrorResult("not initialized")]
            /\ UNCHANGED <<prev, tails>>
       ELSE /\ prev' = [prev EXCEPT ![i] = PrevOf(MutexKey(a.w))]
            /\ tails' = [tails EXCEPT ![MutexKey(a.w)] = TailRef(i)]
            /\ pc' = [pc EXCEPT ![i] = "waiting"]
            /\ UNCHANGED result
  /\ UNCHANGED <<initialized, alive, prompt, shell, nextResolved, tailResolved,
                 polls, timedOut, keylog>>
  /\ UNCHANGED dirvars

\* executeCommand(windowId, command, timeout, stripAnsi)
CallExecute(i, w, command, stripAnsi) ==
  /\ Cardinality({j \in Ops : arg[j].kind = "execute"}) < MaxExecs
  /\ Call(i, [NoArg EXCEPT !.kind = "execute", !.w = w, !.command = command,
                            !.stripAnsi = stripAnsi])

\* readLogsFromTab(windowId, lines, stripAnsi)
CallReadLogs(i, w, lines, stripAnsi) ==
  Call(i, [NoArg EXCEPT !.kind = "read", !.w = w, !.stripAnsi = stripAnsi,
                         !.lines = lines])

\* The first step of fn for each kind of call.
FirstStep(kind) ==
  CASE kind = "execute" -> "sendStart"
    [] kind = "start" -> "startText"
    [] kind = "stop" -> "stopKey"
    [] OTHER -> "readCapture"

\* The continuation of `await prev`: fn starts.
Acquire(i) ==
  /\ pc[i] = "waiting"
  /\ MayEnter(i)
  /\ ~CleanupPending
  /\ pc' = [pc EXCEPT ![i] = FirstStep(arg[i].kind)]
  /\ UNCHANGED <<initialized, alive, prompt, shell, tails, prev, nextResolved,
                 tailResolved, arg, polls, timedOut, result, keylog>>
  /\ UNCHANGED dirvars

\* The promise prev.then(() => next) resolves once prev and next have.
TailSettle(i) ==
  /\ TailReady(i)
  /\ tailResolved' = [tailResolved EXCEPT ![i] = TRUE]
  /\ UNCHANGED <<initialized, alive, prompt, shell, tails, prev, nextResolved,
                 pc, arg, polls, timedOut, result, keylog>>
  /\ UNCHANGED dirvars

\* One send-keys <text> Enter of executeCommand followed by its sleep.
SendKeys(i, at, text, keys, to) ==
  /\ ~MicrotaskPending
  /\ pc[i] = at
  /\ LET w == arg[i].w IN
     IF ~TmuxOK(w)
       THEN Throw(i) /\ UNCHANGED <<shell, keylog>>
       ELSE /\ shell' = [shell EXCEPT ![Target(w)] = Type(@, [op |-> i, text |-> text])]
            /\ keylog' = [keylog EXCEPT ![Target(w)] =
                            Append(@, [op |-> i, keys |-> keys,
                                       at |-> Len(shell[Target(w)].pane)])]
            /\ pc' = [pc EXCEPT ![i] = to]
            /\ UNCHANGED <<result, nextResolved, polls, timedOut>>
  /\ UNCHANGED <<initialized, alive, prompt, tails, prev, tailResolved, arg>>
  /\ UNCHANGED dirvars

\* send-keys `echo '${startMarker}'` Enter
SendStart(i) ==
  SendKeys(i, "sendStart",
           <<Tok("echoq", "echo '"), StartMarker(i), Tok("q", "'")>>,
           "start", "sendCmd")

\* send-keys command Enter
SendCmd(i) ==
  SendKeys(i, "sendCmd", <<Tok("cmd", arg[i].command)>>, "cmd", "sendEnd")

\* send-keys `echo '${endMarker}${exitCodeMarker}'$?` Enter
SendEnd(i) ==
  SendKeys(i, "sendEnd",
           <<Tok("echoq", "echo '"), EndMarker(i), ExitCodeMarker, Tok("q", "'"),
             Tok("var", "$?")>>,
           "end", "poll")

\* if (!paneDump) falls straight through to the final capture.
OnTimeoutNoInterrupt == "finalCapture"
\* if (!paneDump) { timedOut = true; send-keys C-c; ... }: the step that
\* follows the loop when it ended without a dump.
OnTimeout == "interrupt"

\* stdout.includes(endMarker)
SeesEnd(lines, i) == \E k \in 1..Len(lines) : Includes(lines[k], EndMarker(i))

\* while (true): the loop has no deadline.
WithinTimeoutAlways(n) == {TRUE}
\* Date.now() - startTime < timeout, after n iterations: true at the first
\* evaluation, false after MaxPolls iterations at the latest.
WithinTimeout(n) ==
  IF n = 0 THEN {TRUE} ELSE IF n >= MaxPolls THEN {FALSE} ELSE BOOLEAN

\* One evaluation of the while condition and, when it holds, one iteration
\* of the poll loop.  The first evaluation follows startTime at once and is
\* true; the deadline passes after MaxPolls iterations at the latest.
Poll(i) ==
  /\ ~MicrotaskPending
  /\ pc[i] = "poll"
  /\ \E inTime \in WithinTimeout(polls[i]) :
       /\ LET w == arg[i].w
              lines == Capture(shell[CaptureTarget(w)])
          IN IF ~inTime
               THEN /\ timedOut' = [timedOut EXCEPT ![i] = TRUE]
                    /\ pc' = [pc EXCEPT ![i] = OnTimeout]
                    /\ UNCHANGED <<polls, result, nextResolved>>
             ELSE IF ~TmuxOK(w)
               THEN Throw(i)
             ELSE IF SeesEnd(lines, i)
               THEN Settle(i, ParseDump(lines, i, arg[i].command, arg[i].stripAnsi, FALSE), FALSE)
             ELSE /\ polls' = [polls EXCEPT ![i] = IF @ < MaxPolls THEN @ + 1 ELSE @]
                  /\ UNCHANGED <<pc, timedOut, result, nextResolved>>
  /\ UNCHANGED <<initialized, alive, prompt, shell, tails, prev, tailResolved,
                 arg, keylog>>
  /\ UNCHANGED dirvars

\* On timeout: send-keys C-c, sleep(50)
SendInterrupt(i) ==
  /\ ~MicrotaskPending
  /\ pc[i] = "interrupt"
  /\ LET w == arg[i].w IN
     IF ~TmuxOK(w)
       THEN Throw(i) /\ UNCHANGED <<shell, keylog>>
       ELSE /\ shell' = [shell EXCEPT ![Target(w)] = Interrupt(@)]
            /\ keylog' = [keylog EXCEPT ![Target(w)] =
                            Append(@, [op |-> i, keys |-> "C-c",
                                       at |-> Len(shell[Target(w)].pane)])]
            /\ pc' = [pc EXCEPT ![i] = "finalCapture"]
            /\ UNCHANGED <<result, nextResolved, polls, timedOut>>
  /\ UNCHANGED <<initialized, alive, prompt, tails, prev, tailResolved, arg>>
  /\ UNCHANGED dirvars

\* On timeout: the last capture-pane, then parse and return.
FinalCapture(i) ==
  /\ ~MicrotaskPending
  /\ pc[i] = "finalCapture"
  /\ LET w == arg[i].w IN
     IF ~TmuxOK(w)
       THEN Throw(i)
       ELSE \E lines \in {Capture(shell[CaptureTarget(w)])} :
              Settle(i, ParseDump(lines, i, arg[i].command, arg[i].stripAnsi, timedOut[i]), FALSE)
  /\ UNCHANGED <<initialized, alive, prompt, shell, tails, prev, tailResolved,
                 arg, keylog>>
  /\ UNCHANGED dirvars

\* What readLogsFromTab returns for the captured lines.
LogsResult(lines, stripAnsi) ==
  LET content == IF stripAnsi THEN stripAnsiSequences(lines) ELSE lines
  IN [NoResult EXCEPT !.kind = "ok", !.output = TrimText(content),
                      !.returned_lines = Len(content), !.truncated = FALSE]

\* The predicate of readOutput's filter on a captured line.
KeepOutputLine(line) ==
  LET t == TrimEnd(line)
  IN t # << >> /\ ~AnyTok(t, HasMCP)
RECURSIVE CleanLines(_)
CleanLines(lines) ==
  IF lines = << >> THEN << >>
  ELSE IF KeepOutputLine(Head(lines))
    THEN <<TrimEnd(Head(lines))>> \o CleanLines(Tail(lines))
  ELSE CleanLines(Tail(lines))
\* What readOutput returns for the captured lines.
OutputResult(lines) ==
  [NoResult EXCEPT !.kind = "ok", !.output = TrimText(CleanLines(lines))]

\* if (appendNewline) without the test: Enter is always sent.
EnterAlways(appendNewline) == TRUE
\* if (appendNewline) { send-keys Enter }
EnterAfterText(appendNewline) == appendNewline

\* startProcess: send-keys -t windowId command (the text, no Enter)
StartText(i) ==
  /\ ~MicrotaskPending
  /\ pc[i] = "startText"
  /\ LET w == arg[i].w IN
     IF ~TmuxOK(w)
       THEN Throw(i) /\ UNCHANGED <<shell, keylog>>
       ELSE /\ shell' = [shell EXCEPT ![Target(w)] =
                           TypeText(@, <<Tok("cmd", arg[i].command)>>)]
            /\ keylog' = [keylog EXCEPT ![Target(w)] =
                            Append(@, [op |-> i, keys |-> "text",
                                       at |-> Len(shell[Target(w)].pane)])]
            /\ IF EnterAfterText(arg[i].appendNewline)
                 THEN /\ pc' = [pc EXCEPT ![i] = "startEnter"]
                      /\ UNCHANGED <<result, nextResolved, polls, timedOut>>
                 ELSE Settle(i, [NoResult EXCEPT !.kind = "ok", !.started = TRUE], FALSE)
  /\ UNCHANGED <<initialized, alive, prompt, tails, prev, tailResolved, arg>>
  /\ UNCHANGED dirvars

\* startProcess: send-keys -t windowId Enter; return { started: true }
StartEnter(i) ==
  /\ ~MicrotaskPending
  /\ pc[i] = "startEnter"
  /\ LET w == arg[i].w IN
     IF ~TmuxOK(w)
       THEN Throw(i) /\ UNCHANGED <<shell, keylog>>
       ELSE /\ shell' = [shell EXCEPT ![Target(w)] = Type(@, [op |-> i, text |-> << >>])]
            /\ keylog' = [keylog EXCEPT ![Target(w)] =
                            Append(@, [op |-> i, keys |-> "Enter",
                                       at |-> Len(shell[Target(w)].pane)])]
            /\ Settle(i, [NoResult EXCEPT !.kind = "ok", !.started = TRUE], FALSE)
  /\ UNCHANGED <<initialized, alive, prompt, tails, prev, tailResolved, arg>>
  /\ UNCHANGED dirvars

\* Every signal name that is not SIGTERM is treated as SIGINT.
SignalKeyDefault(signal) == IF signal = "SIGTERM" THEN "C-\\" ELSE "C-c"
\* stopProcess: the key sent for a signal name; "none": no branch is taken.
SignalKey(signal) ==
  CASE signal = "SIGINT" -> "C-c"
    [] signal = "SIGTERM" -> "C-\\"
    [] OTHER -> "none"

\* stopProcess: send-keys C-c or C-\, sleep(100); with another signal name
\* nothing is sent and { success: true } is returned.
StopKey(i) ==
  /\ ~MicrotaskPending
  /\ pc[i] = "stopKey"
  /\ LET w == arg[i].w
         key == SignalKey(arg[i].signal)
     IN IF key = "none"
          THEN /\ Settle(i, [NoResult EXCEPT !.kind = "ok", !.success = TRUE], FALSE)
               /\ UNCHANGED <<shell, keylog>>
        ELSE IF ~TmuxOK(w)
          THEN Throw(i) /\ UNCHANGED <<shell, keylog>>
        ELSE /\ shell' = [shell EXCEPT ![Target(w)] =
                            IF key = "C-c" THEN Interrupt(@) ELSE Quit(@)]
             /\ keylog' = [keylog EXCEPT ![Target(w)] =
                             Append(@, [op |-> i, keys |-> key,
                                        at |-> Len(shell[Target(w)].pane)])]
             /\ pc' = [pc EXCEPT ![i] = "stopExit"]
             /\ UNCHANGED <<result, nextResolved, polls, timedOut>>
  /\ UNCHANGED <<initialized, alive, prompt, tails, prev, tailResolved, arg>>
  /\ UNCHANGED dirvars

\* stopProcess: send-keys exit Enter; return { success: true }
StopExit(i) ==
  /\ ~MicrotaskPending
  /\ pc[i] = "stopExit"
  /\ LET w == arg[i].w IN
     IF ~TmuxOK(w)
       THEN Throw(i) /\ UNCHANGED <<shell, keylog>>
       ELSE /\ shell' = [shell EXCEPT ![Target(w)] =
                           Type(@, [op |-> i, text |-> <<Tok("exit", "exit")>>])]
            /\ keylog' = [keylog EXCEPT ![Target(w)] =
                            Append(@, [op |-> i, keys |-> "exit",
                                       at |-> Len(shell[Target(w)].pane)])]
            /\ Settle(i, [NoResult EXCEPT !.kind = "ok", !.success = TRUE], FALSE)
  /\ UNCHANGED <<initialized, alive, prompt, tails, prev, tailResolved, arg>>
  /\ UNCHANGED dirvars

\* The capture is started before `await prev`, outside the lock.
CapturesUnlocked(i) == pc[i] \in {"waiting", "readCapture"}
\* The capture is the body of the function handed to runExclusive.
CapturesLocked(i) == pc[i] = "readCapture"

\* fn of readLogsFromTab and of readOutput: one capture-pane, then the
\* result.  held records how many lines the pane held at the capture.
ReadCapture(i) ==
  /\ ~MicrotaskPending
  /\ CapturesLocked(i)
  /\ LET w == arg[i].w IN
     IF ~TmuxOK(w)
       THEN Throw(i)
       ELSE \E lines \in {CaptureSince(shell[CaptureTarget(w)], arg[i].lines)} :
            \E res \in {IF arg[i].kind = "output" THEN OutputResult(lines)
                         ELSE LogsResult(lines, arg[i].stripAnsi)} :
              Settle(i, [res EXCEPT !.held = Len(shell[CaptureTarget(w)].pane)], FALSE)
  /\ UNCHANGED <<initialized, alive, prompt, shell, tails, prev, tailResolved,
                 arg, keylog>>
  /\ UNCHANGED dirvars

\* The microtask queued in the finally block:
\* if (this.tails.get(key) === next) this.tails.delete(key)
Cleanup(i) ==
  /\ pc[i] = "cleanup"
  /\ ~TailReady(i)
  /\ tails' = IF tails[Key(i)] = NextRef(i)
                THEN [tails EXCEPT ![Key(i)] = NoPromise] ELSE tails
  /\ pc' = [pc EXCEPT ![i] = "done"]
  /\ UNCHANGED <<initialized, alive, prompt, shell, prev, nextResolved,
                 tailResolved, arg, polls, timedOut, result, keylog>>
  /\ UNCHANGED dirvars

\* Environment: the foreground command of a window ends.
Finish(w) ==
  /\ ~MicrotaskPending
  /\ alive[w] = "live"
  /\ shell[w].fg # NoFg
  /\ shell' = [shell EXCEPT ![w] = FinishFg(@)]
  /\ UNCHANGED <<initialized, alive, prompt, tails, prev, nextResolved,
                 tailResolved, pc, arg, polls, timedOut, result, keylog>>
  /\ UNCHANGED dirvars

\* The steps that follow a call: promise reactions, the awaits of fn, and
\* the shell's own progress.
Step ==
  \/ \E i \in Ops : Acquire(i)
  \/ \E i \in Ops : TailSettle(i)
  \/ \E i \in Ops : SendStart(i)
  \/ \E i \in Ops : SendCmd(i)
  \/ \E i \in Ops : SendEnd(i)
  \/ \E i \in Ops : Poll(i)
  \/ \E i \in Ops : SendInterrupt(i)
  \/ \E i \in Ops : FinalCapture(i)
  \/ \E i \in Ops : Cleanup(i)
  \/ \E w \in Windows : Finish(w)

\* The executor: execute_command calls with every command, on windows that
\* exist or do not exist yet.
Next ==
  \/ \E w \in Windows : CreateTab(w)
  \/ \E i \in Ops, w \in Windows, c \in Commands, sa \in StripChoices :
       CallExecute(i, w, c, sa)
  \/ Step

Spec == Init /\ [][Next]_vars

\* The commands that keep the executor polling.
LongCommands == {"stty -echo; sleep 1; stty echo"}
\* The same, and a command that prints nothing and ignores the interrupt.
LiveCommands == LongCommands \cup {"stty -echo; trap '' INT; sleep 30"}

(***************************************************************************)
(* The tool layer: server.ts and the tool handlers.                        *)
(***************************************************************************)
\* Number of tools/call requests in one behaviour of the tool layer.
MaxRequests == 2

\* The tools whose handlers work on one window.
Tools == {"execute", "read", "start", "stop"}
\* The list each handler passes to validateArgs.
Required(kind) ==
  CASE kind \in {"execute", "start"} -> {"window_id", "command"}
    [] kind \in {"read", "stop"} -> {"window_id"}
    [] OTHER -> {}

\* No validation: every request goes on to the manager.
validateArgsNone(a, required) == TRUE
\* validateArgs: every required key is neither undefined nor null.
validateArgs(a, required) == required \subseteq a.has

\* The request is answered with an error before any manager method runs.
Reject(i, a, res) ==
  /\ ~MicrotaskPending
  /\ pc[i] = "idle"
  /\ \A j \in Ops : j < i => Called(j)
  /\ arg' = [arg EXCEPT ![i] = a]
  /\ pc' = [pc EXCEPT ![i] = "done"]
  /\ result' = [result EXCEPT ![i] = res]
  /\ UNCHANGED <<initialized, alive, prompt, shell, tails, prev, nextResolved,
                 tailResolved, polls, timedOut, keylog>>
  /\ UNCHANGED dirvars

\* tools/call: the switch of server.ts, then the handler: validateArgs, then
\* the manager method.  With no `arguments`, validateArgs itself throws a
\* TypeError, which server.ts turns into an InternalError.
Request(i, a) ==
  IF a.kind \notin Tools
    THEN Reject(i, a, McpError("unknown tool", "MethodNotFound"))
  ELSE IF a.noArguments
    THEN Reject(i, a, McpError("type error", "InternalError"))
  ELSE IF ~validateArgs(a, Required(a.kind))
    THEN Reject(i, a, McpError("invalid", "InvalidParams"))
  ELSE Call(i, a)

\* The signal names callers pass to stop_process.
Signals == {"SIGINT", "SIGTERM", "SIGKILL"}
\* The command a request carries for a tool.
CommandFor(kind) == IF kind = "start" THEN "sleep 30" ELSE "echo hello"

\* The requests of this model: for every tool, with every subset of its
\* required fields, and with the optional fields that change what the
\* manager does; a request for a tool that does not exist; a request
\* without arguments.
Requests ==
  {[NoArg EXCEPT !.kind = k, !.has = h,
                 !.w = IF "window_id" \in h THEN w ELSE 0,
                 !.command = IF "command" \in h THEN CommandFor(k) ELSE "none",
                 !.lines = IF k = "read" THEN 500 ELSE 0,
                 !.appendNewline = nl, !.signal = sg] :
     k \in Tools, h \in SUBSET {"window_id", "command"}, w \in Windows,
     nl \in BOOLEAN, sg \in Signals}
  \cup {[NoArg EXCEPT !.kind = "unknown"],
        [NoArg EXCEPT !.kind = "execute", !.noArguments = TRUE]}

\* Each request once: optional fields count only where the handler reads
\* them, and the window only when the request names one.
Distinct(a) ==
  /\ a.kind # "start" => a.appendNewline
  /\ a.kind # "stop" => a.signal = "SIGINT"
  /\ a.kind \in {"read", "stop"} => "command" \notin a.has
  /\ "window_id" \notin a.has => a.appendNewline /\ a.signal = "SIGINT"

\* The tool layer once the server runs: window 1 exists, window 2 was never
\* made.
InitTools ==
  /\ initialized = TRUE
  /\ alive = [w \in Windows |-> IF w = 1 THEN "live" ELSE "none"]
  /\ prompt = "bash-5.1$"
  /\ shell = [w \in Windows |-> NewShell]
  /\ tails = [k \in Keys |-> NoPromise]
  /\ prev = [i \in Ops |-> NoPromise]
  /\ nextResolved = [i \in Ops |-> FALSE]
  /\ tailResolved = [i \in Ops |-> FALSE]
  /\ pc = [i \in Ops |-> "idle"]
  /\ arg = [i \in Ops |-> NoArg]
  /\ polls = [i \in Ops |-> 0]
  /\ timedOut = [i \in Ops |-> FALSE]
  /\ result = [i \in Ops |-> NoResult]
  /\ keylog = [w \in Windows |-> << >>]
  /\ session = TRUE
  /\ names = [w \in Windows |-> IF alive[w] = "none" THEN << >> ELSE GeneratedName]
  /\ stdout = [i \in Ops |-> 0]

\* The echo these requests execute is on the screen at the first poll, so
\* no call of this layer runs into its deadline.
NextTools ==
  \/ \E i \in 1..MaxRequests, a \in Requests : Distinct(a) /\ Request(i, a)
  \/ \E i \in Ops : Acquire(i)
  \/ \E i \in Ops : TailSettle(i)
  \/ \E i \in Ops : SendStart(i)
  \/ \E i \in Ops : SendCmd(i)
  \/ \E i \in Ops : SendEnd(i)
  \/ \E i \in Ops : Poll(i)
  \/ \E i \in Ops : StartText(i)
  \/ \E i \in Ops : StartEnter(i)
  \/ \E i \in Ops : StopKey(i)
  \/ \E i \in Ops : StopExit(i)
  \/ \E i \in Ops : ReadCapture(i)
  \/ \E i \in Ops : Cleanup(i)
  \/ \E w \in Windows : Finish(w)

SpecTools == InitTools /\ [][NextTools]_vars

\* A process is started, stopped, and a command executed, on window 1.
RoundTrip ==
  {a \in Requests :
     /\ Distinct(a) /\ a.w = 1
     /\ a.kind \in {"start", "stop", "execute"}
     /\ a.has = Required(a.kind)
     /\ a.appendNewline}

NextRoundTrip ==
  \/ \E i \in Ops, a \in RoundTrip : Request(i, a)
  \/ \E i \in Ops : Acquire(i)
  \/ \E i \in Ops : TailSettle(i)
  \/ \E i \in Ops : SendStart(i)
  \/ \E i \in Ops : SendCmd(i)
  \/ \E i \in Ops : SendEnd(i)
  \/ \E i \in Ops : Poll(i)
  \/ \E i \in Ops : StartText(i)
  \/ \E i \in Ops : StartEnter(i)
  \/ \E i \in Ops : StopKey(i)
  \/ \E i \in Ops : StopExit(i)
  \/ \E i \in Ops : Cleanup(i)
  \/ \E w \in Windows : Finish(w)

SpecRoundTrip == InitTools /\ [][NextRoundTrip]_vars

\* readOutput(windowId, historyLimit)
CallReadOutput(i, w, historyLimit) ==
  Call(i, [NoArg EXCEPT !.kind = "output", !.w = w, !.lines = historyLimit])

\* Values of `lines` for read_logs_from_tab: one line, and the default.
LogLines == {1, 500}
\* Requests on window 1: a command that prints more than a screen, log
\* reads, a process started and stopped.
LogRequests ==
  {[NoArg EXCEPT !.kind = "execute", !.has = Required("execute"), !.w = 1,
                 !.command = "seq 30"],
   [NoArg EXCEPT !.kind = "start", !.has = Required("start"), !.w = 1,
                 !.command = "sleep 30"],
   [NoArg EXCEPT !.kind = "stop", !.has = Required("stop"), !.w = 1]}
  \cup {[NoArg EXCEPT !.kind = "read", !.has = Required("read"), !.w = 1,
                      !.lines = n] : n \in LogLines}

NextLogs ==
  \/ \E i \in Ops, a \in LogRequests : Request(i, a)
  \/ \E i \in Ops : CallReadOutput(i, 1, 0)
  \/ \E i \in Ops : Acquire(i)
  \/ \E i \in Ops : TailSettle(i)
  \/ \E i \in Ops : SendStart(i)
  \/ \E i \in Ops : SendCmd(i)
  \/ \E i \in Ops : SendEnd(i)
  \/ \E i \in Ops : Poll(i)
  \/ \E i \in Ops : StartText(i)
  \/ \E i \in Ops : StartEnter(i)
  \/ \E i \in Ops : StopKey(i)
  \/ \E i \in Ops : StopExit(i)
  \/ \E i \in Ops : ReadCapture(i)
  \/ \E i \in Ops : Cleanup(i)
  \/ \E w \in Windows : Finish(w)

SpecLogs == InitTools /\ [][NextLogs]_vars

\* The lock under load, once the server runs and the windows are made:
\* executes that poll, log reads, and windows closed under running calls.
InitMutex ==
  /\ initialized = TRUE
  /\ alive = [w \in Windows |-> "live"]
  /\ prompt = "bash-5.1$"
  /\ shell = [w \in Windows |-> NewShell]
  /\ tails = [k \in Keys |-> NoPromise]
  /\ prev = [i \in Ops |-> NoPromise]
  /\ nextResolved = [i \in Ops |-> FALSE]
  /\ tailResolved = [i \in Ops |-> FALSE]
  /\ pc = [i \in Ops |-> "idle"]
  /\ arg = [i \in Ops |-> NoArg]
  /\ polls = [i \in Ops |-> 0]
  /\ timedOut = [i \in Ops |-> FALSE]
  /\ result = [i \in Ops |-> NoResult]
  /\ keylog = [w \in Windows |-> << >>]
  /\ session = TRUE
  /\ names = [w \in Windows |-> IF alive[w] = "none" THEN << >> ELSE GeneratedName]
  /\ stdout = [i \in Ops |-> 0]

NextMutex ==
  \/ \E w \in Windows : CloseTab(w)
  \/ \E i \in Ops, w \in Windows, c \in LongCommands, sa \in StripChoices :
       CallExecute(i, w, c, sa)
  \/ \E i \in Ops, w \in Windows, n \in LinesChoices, sa \in StripChoices :
       CallReadLogs(i, w, n, sa)
  \/ \E i \in Ops : ReadCapture(i)
  \/ Step

SpecMutex == InitMutex /\ [][NextMutex]_vars

\* The steps of call i.
OpStep(i) ==
  \/ Acquire(i)
  \/ TailSettle(i)
  \/ SendStart(i)
  \/ SendCmd(i)
  \/ SendEnd(i)
  \/ Poll(i)
  \/ SendInterrupt(i)
  \/ FinalCapture(i)
  \/ ReadCapture(i)
  \/ Cleanup(i)

\* The calls that queue on the lock of window 1 when every tmux subprocess
\* returns, every timer fires and every promise reaction runs; the commands
\* need never end.
NextLive ==
  \/ \E i \in Ops, c \in LiveCommands, sa \in StripChoices :
       CallExecute(i, 1, c, sa)
  \/ \E i \in Ops, n \in LinesChoices, sa \in StripChoices :
       CallReadLogs(i, 1, n, sa)
  \/ \E i \in Ops : OpStep(i)

Fairness == \A i \in Ops : WF_vars(OpStep(i))

SpecLive == InitMutex /\ [][NextLive]_vars /\ Fairness

(***************************************************************************)
(* The session directory: createTab, listTabs, closeTab, startServer.      *)
(* Text is a sequence of characters here; "default" and the window ids     *)
(* stand for texts without whitespace, '#' or line ends.                   *)
(***************************************************************************)
\* Longest window name a caller asks for.
MaxNameLen == 2
\* Characters of a requested name: a space, punctuation, '#', a tab.
Chars == {" ", "!", "#", "\t"}
Names == UNION {[1..n -> Chars] : n \in 1..MaxNameLen}

\* windowName.replace(/#/g, '##')
RECURSIVE ReplaceHash(_)
ReplaceHash(n) ==
  IF n = << >> THEN << >>
  ELSE IF Head(n) = "#" THEN <<"#", "#">> \o ReplaceHash(Tail(n))
  ELSE <<Head(n)>> \o ReplaceHash(Tail(n))

\* The name is handed to tmux as the caller wrote it.
SafeNameRaw(windowName) == windowName
\* safeName: '#' escaped so that tmux's format expansion gives it back.
SafeName(windowName) == ReplaceHash(windowName)

\* options?.name || `tab-${Date.now()}`
WindowNameOf(n) == IF n = << >> THEN GeneratedName ELSE n

\* tmux expands the argument of new-window -n as a format: "##" is one '#';
\* a '#' before a character that starts no format stays as it is.
RECURSIVE FormatExpand(_)
FormatExpand(f) ==
  IF f = << >> THEN << >>
  ELSE IF Head(f) = "#" /\ Len(f) > 1 /\ f[2] = "#"
    THEN <<"#">> \o FormatExpand(SubSeq(f, 3, Len(f)))
  ELSE <<Head(f)>> \o FormatExpand(Tail(f))

\* #{window_id} of a window.
WindowId(w) == ToString(w)
\* The windows of the session, in the order tmux lists them: @0, made by
\* new-session and named default, then the windows made by new-window.
RECURSIVE LiveFrom(_)
LiveFrom(w) ==
  IF w \notin Windows THEN << >>
  ELSE (IF alive[w] = "live" THEN <<w>> ELSE << >>) \o LiveFrom(w + 1)
Listed == IF session THEN <<0>> \o LiveFrom(1) ELSE << >>
NameInTmux(w) == IF w = 0 THEN <<"default">> ELSE names[w]
\* One line of list-windows -F '#{window_id}\t#{window_name}\t#{window_active}';
\* new-window -d leaves @0 the active window.
ListLine(w) ==
  <<WindowId(w), "\t">> \o NameInTmux(w) \o <<"\t", IF w = 0 THEN "1" ELSE "0">>
RECURSIVE ListLines(_)
ListLines(ws) ==
  IF ws = << >> THEN << >>
  ELSE ListLine(Head(ws)) \o <<"\n">> \o ListLines(Tail(ws))
\* stdout of list-windows
ListStdout == ListLines(Listed)

\* String.prototype.trim on characters
Whitespace == {" ", "\t", "\n"}
RECURSIVE TrimChars(_)
TrimChars(t) ==
  IF t = << >> THEN t
  ELSE IF Head(t) \in Whitespace THEN TrimChars(Tail(t))
  ELSE IF t[Len(t)] \in Whitespace THEN TrimChars(SubSeq(t, 1, Len(t) - 1))
  ELSE t
\* String.prototype.split(sep)
RECURSIVE Split(_, _)
Split(t, sep) ==
  LET at == Least({k \in 1..Len(t) : t[k] = sep})
  IN IF at = 0 THEN <<t>>
     ELSE <<SubSeq(t, 1, at - 1)>> \o Split(SubSeq(t, at + 1, Len(t)), sep)
\* Array.prototype.join(sep)
RECURSIVE Join(_, _)
Join(parts, sep) ==
  IF parts = << >> THEN << >>
  ELSE IF Len(parts) = 1 THEN parts[1]
  ELSE parts[1] \o <<sep>> \o Join(Tail(parts), sep)

\* listTabs: one TmuxWindow for a line of the output.
ParseListLine(line) ==
  LET parts == Split(line, "\t")
      n == Len(parts)
  IN [window_id |-> parts[1],
      name |-> Join(SubSeq(parts, 2, n - 1), "\t"),
      active |-> parts[n] = <<"1">>]
\* listTabs: the windows parsed from stdout.
ParseList(out) ==
  LET raw == TrimChars(out)
      lines == Split(raw, "\n")
  IN IF raw = << >> THEN << >>
     ELSE [k \in 1..Len(lines) |-> ParseListLine(lines[k])]

\* A manager method throws an Error that no handler wraps.
Error(msg) == [NoResult EXCEPT !.kind = msg]

\* The id is looked up after new-window: the newest window of the session.
CreatedIdNewest(i) ==
  LET live == {w \in Windows : alive[w] = "live"}
  IN CHOOSE w \in live : \A v \in live : v <= w
\* stdout.trim().split('\n').slice(-1)[0].trim() of new-window -P -F '#{window_id}'
CreatedId(i) == stdout[i]

\* The first tmux step of a directory call once the server runs.
FirstDirStep(kind) ==
  CASE kind = "create" -> "newWindow"
    [] kind = "list" -> "listWindows"
    [] OTHER -> "killWindow"

\* createTab, listTabs: up to the first await; startServer comes first when
\* the manager is not initialized.  `after` records the calls that had
\* returned when this one was made.
DirCall(i, a) ==
  /\ pc[i] = "idle"
  /\ \A j \in Ops : j < i => Called(j)
  /\ arg' = [arg EXCEPT ![i] = [a EXCEPT !.after = {j \in Ops : pc[j] = "done"}]]
  /\ pc' = [pc EXCEPT ![i] = IF initialized THEN FirstDirStep(a.kind)
                             ELSE "newSession"]
  /\ UNCHANGED <<initialized, alive, prompt, shell, tails, prev, nextResolved,
                 tailResolved, polls, timedOut, result, keylog>>
  /\ UNCHANGED dirvars

\* options.cwd: left out, a directory that exists, a path that does not.
Dirs == {"none", "exists", "missing"}
\* createTab({name, cwd})
CallCreateIn(i, n, cwd) ==
  /\ Cardinality({j \in Ops : arg[j].kind = "create"}) < Cardinality(Windows)
  /\ DirCall(i, [NoArg EXCEPT !.kind = "create", !.name = n, !.cwd = cwd])
\* createTab({name})
CallCreate(i, n) == CallCreateIn(i, n, "none")

\* listTabs()
CallList(i) == DirCall(i, [NoArg EXCEPT !.kind = "list"])

\* closeTab(windowId): throws at once when the manager is not initialized.
CallClose(i, w) ==
  /\ pc[i] = "idle"
  /\ \A j \in Ops : j < i => Called(j)
  /\ arg' = [arg EXCEPT ![i] = [NoArg EXCEPT !.kind = "close", !.w = w,
                                             !.after = {j \in Ops : pc[j] = "done"}]]
  /\ IF NotInitialized
       THEN /\ pc' = [pc EXCEPT ![i] = "done"]
            /\ result' = [result EXCEPT ![i] = Error("not initialized")]
       ELSE /\ pc' = [pc EXCEPT ![i] = "killWindow"]
            /\ UNCHANGED result
  /\ UNCHANGED <<initialized, alive, prompt, shell, tails, prev, nextResolved,
                 tailResolved, polls, timedOut, keylog>>
  /\ UNCHANGED dirvars

\* No error of new-session is ignored.
IgnoredErrorNone(msg) == FALSE
\* /duplicate session|session already exists/i.test(msg)
IgnoredError(msg) == msg \in {"duplicate session", "session already exists"}

\* startServer: new-session -d -s mcp-terminally -n default.  tmux refuses
\* a second session of the name with `duplicate session: mcp-terminally`;
\* the catch ignores that error and throws every other one on.
NewSession(i) ==
  /\ pc[i] = "newSession"
  /\ arg' = [arg EXCEPT ![i].newSession = IF session THEN "duplicate" ELSE "created"]
  /\ IF session /\ ~IgnoredError("duplicate session")
       THEN /\ result' = [result EXCEPT ![i] = Error("duplicate session")]
            /\ pc' = [pc EXCEPT ![i] = "done"]
            /\ UNCHANGED session
       ELSE /\ session' = TRUE
            /\ pc' = [pc EXCEPT ![i] = "setOptions"]
            /\ UNCHANGED result
  /\ UNCHANGED <<initialized, alive, prompt, shell, tails, prev, nextResolved,
                 tailResolved, polls, timedOut, keylog, names, stdout>>

\* startServer: the set-option calls, then initialized = true; the method
\* that awaited startServer goes on.
SetOptions(i) ==
  /\ pc[i] = "setOptions"
  /\ initialized' = TRUE
  /\ pc' = [pc EXCEPT ![i] = FirstDirStep(arg[i].kind)]
  /\ UNCHANGED <<alive, prompt, shell, tails, prev, nextResolved,
                 tailResolved, arg, polls, timedOut, result, keylog>>
  /\ UNCHANGED dirvars

\* if (options?.cwd) args.push('-c', options.cwd): what new-window does with
\* the directory.  TRUE: the window is made (tmux starts the shell in the
\* directory, and in the home directory when it cannot enter it); FALSE:
\* tmux exits with an error.
NewWindowMakes(cwd) == IF cwd = "missing" THEN BOOLEAN ELSE {TRUE}

\* createTab: tmux runs new-window -d -n safeName -P -F '#{window_id}': it
\* makes the window with the next id and prints that id.  arg[i].w records
\* the window this call made.  An error of tmux is logged and thrown on.
NewWindow(i) ==
  /\ pc[i] = "newWindow"
  /\ \E made \in NewWindowMakes(arg[i].cwd) :
       IF made
         THEN /\ LET w == Least({v \in Windows : alive[v] = "none"})
                     safeName == SafeName(WindowNameOf(arg[i].name))
                 IN /\ w # 0
                    /\ alive' = [alive EXCEPT ![w] = "live"]
                    /\ shell' = [shell EXCEPT ![w] = NewShell]
                    /\ names' = [names EXCEPT ![w] = FormatExpand(safeName)]
                    /\ stdout' = [stdout EXCEPT ![i] = w]
                    /\ arg' = [arg EXCEPT ![i].w = w]
              /\ pc' = [pc EXCEPT ![i] = "createReturn"]
              /\ UNCHANGED result
         ELSE /\ result' = [result EXCEPT ![i] = Error("error")]
              /\ pc' = [pc EXCEPT ![i] = "done"]
              /\ UNCHANGED <<alive, shell, names, stdout, arg>>
  /\ UNCHANGED <<initialized, prompt, tails, prev, nextResolved,
                 tailResolved, polls, timedOut, keylog, session>>

\* createTab: return { window_id: windowId, name: safeName }
CreateReturn(i) ==
  /\ pc[i] = "createReturn"
  /\ result' = [result EXCEPT ![i] =
                  [NoResult EXCEPT !.kind = "ok", !.window_id = CreatedId(i),
                                   !.name = SafeName(WindowNameOf(arg[i].name))]]
  /\ pc' = [pc EXCEPT ![i] = "done"]
  /\ UNCHANGED <<initialized, alive, prompt, shell, tails, prev, nextResolved,
                 tailResolved, arg, polls, timedOut, keylog>>
  /\ UNCHANGED dirvars

\* listTabs: list-windows, then the parsed windows.
ListWindows(i) ==
  /\ pc[i] = "listWindows"
  /\ result' = [result EXCEPT ![i] =
                  [NoResult EXCEPT !.kind = "ok", !.tabs = ParseList(ListStdout)]]
  /\ pc' = [pc EXCEPT ![i] = "done"]
  /\ UNCHANGED <<initialized, alive, prompt, shell, tails, prev, nextResolved,
                 tailResolved, arg, polls, timedOut, keylog>>
  /\ UNCHANGED dirvars

\* closeTab: tmux runs kill-window -t windowId; it fails when there is no
\* such window and the error is thrown on.  wasLive records whether the
\* window was there.
KillWindow(i) ==
  /\ pc[i] = "killWindow"
  /\ LET w == arg[i].w IN
       /\ arg' = [arg EXCEPT ![i].wasLive = alive[w] = "live"]
       /\ IF alive[w] = "live"
            THEN /\ alive' = [alive EXCEPT ![w] = "closed"]
                 /\ result' = [result EXCEPT ![i] = [NoResult EXCEPT !.kind = "ok"]]
            ELSE /\ result' = [result EXCEPT ![i] = Error("error")]
                 /\ UNCHANGED alive
  /\ pc' = [pc EXCEPT ![i] = "done"]
  /\ UNCHANGED <<initialized, prompt, shell, tails, prev, nextResolved,
                 tailResolved, polls, timedOut, keylog>>
  /\ UNCHANGED dirvars

\* The directory from a manager that has not started its server: tabs are
\* made with every name, listed and closed, and the calls overlap.
NextTabs ==
  \/ \E i \in Ops, n \in Names : CallCreate(i, n)
  \/ \E i \in Ops : CallList(i)
  \/ \E i \in Ops, w \in Windows : CallClose(i, w)
  \/ \E i \in Ops : NewSession(i)
  \/ \E i \in Ops : SetOptions(i)
  \/ \E i \in Ops : NewWindow(i)
  \/ \E i \in Ops : CreateReturn(i)
  \/ \E i \in Ops : ListWindows(i)
  \/ \E i \in Ops : KillWindow(i)

\* No window exists yet, so the prompt of the shells plays no part.
InitTabs == Init /\ prompt = "bash-5.1$"

SpecTabs == InitTabs /\ [][NextTabs]_vars

\* First use: create and list calls on a manager that has not started its
\* server, so that several of them run startServer at the same time.
NextFirstUse ==
  \/ \E i \in Ops : CallCreate(i, << >>)
  \/ \E i \in Ops : CallList(i)
  \/ \E i \in Ops : NewSession(i)
  \/ \E i \in Ops : SetOptions(i)
  \/ \E i \in Ops : NewWindow(i)
  \/ \E i \in Ops : CreateReturn(i)
  \/ \E i \in Ops : ListWindows(i)

SpecFirstUse == InitTabs /\ [][NextFirstUse]_vars

\* stopServer(): returns at once when the manager is not initialized.
CallStopServer(i) ==
  /\ pc[i] = "idle"
  /\ \A j \in Ops : j < i => Called(j)
  /\ arg' = [arg EXCEPT ![i] = [NoArg EXCEPT !.kind = "stopServer",
                                             !.after = {j \in Ops : pc[j] = "done"}]]
  /\ IF NotInitialized
       THEN /\ pc' = [pc EXCEPT ![i] = "done"]
            /\ result' = [result EXCEPT ![i] = [NoResult EXCEPT !.kind = "ok"]]
       ELSE /\ pc' = [pc EXCEPT ![i] = "killServer"]
            /\ UNCHANGED result
  /\ UNCHANGED <<initialized, alive, prompt, shell, tails, prev, nextResolved,
                 tailResolved, polls, timedOut, keylog>>
  /\ UNCHANGED dirvars

\* What kill-server can do: TRUE, the server ends; FALSE, tmux exits with an
\* error (always so when no server runs on the socket).
KillServerEnds == IF session THEN BOOLEAN ELSE {FALSE}

\* stopServer: kill-server, then initialized = false; an error of tmux is
\* logged and not thrown.  The server takes its session and windows with
\* it; a later server numbers its windows from @0 again.
KillServer(i) ==
  /\ pc[i] = "killServer"
  /\ \E ended \in KillServerEnds :
       IF ended
         THEN /\ initialized' = FALSE
              /\ session' = FALSE
              /\ alive' = [w \in Windows |-> "none"]
              /\ names' = [w \in Windows |-> << >>]
         ELSE UNCHANGED <<initialized, session, alive, names>>
  /\ result' = [result EXCEPT ![i] = [NoResult EXCEPT !.kind = "ok"]]
  /\ pc' = [pc EXCEPT ![i] = "done"]
  /\ UNCHANGED <<prompt, shell, tails, prev, nextResolved, tailResolved, arg,
                 polls, timedOut, keylog, stdout>>

\* The methods that need a running server, each on window 1.
GuardedCalls ==
  {[NoArg EXCEPT !.kind = "execute", !.w = 1, !.command = "true"],
   [NoArg EXCEPT !.kind = "read", !.w = 1, !.lines = 500],
   [NoArg EXCEPT !.kind = "output", !.w = 1],
   [NoArg EXCEPT !.kind = "start", !.w = 1, !.command = "sleep 30"],
   [NoArg EXCEPT !.kind = "stop", !.w = 1]}

\* The life of the manager: every method, called before the server is
\* started, while it runs and after it was stopped.
NextLifecycle ==
  \/ \E i \in Ops, a \in GuardedCalls : Call(i, a)
  \/ \E i \in Ops : CallClose(i, 1)
  \/ \E i \in Ops : CallCreate(i, << >>)
  \/ \E i \in Ops : CallList(i)
  \/ \E i \in Ops : CallStopServer(i)
  \/ \E i \in Ops : KillServer(i)
  \/ \E i \in Ops : NewSession(i)
  \/ \E i \in Ops : SetOptions(i)
  \/ \E i \in Ops : NewWindow(i)
  \/ \E i \in Ops : CreateReturn(i)
  \/ \E i \in Ops : ListWindows(i)
  \/ \E i \in Ops : KillWindow(i)
  \/ \E i \in Ops : Acquire(i)
  \/ \E i \in Ops : TailSettle(i)
  \/ \E i \in Ops : SendStart(i)
  \/ \E i \in Ops : SendCmd(i)
  \/ \E i \in Ops : SendEnd(i)
  \/ \E i \in Ops : Poll(i)
  \/ \E i \in Ops : StartText(i)
  \/ \E i \in Ops : StartEnter(i)
  \/ \E i \in Ops : StopKey(i)
  \/ \E i \in Ops : StopExit(i)
  \/ \E i \in Ops : ReadCapture(i)
  \/ \E i \in Ops : Cleanup(i)

SpecLifecycle == InitTabs /\ [][NextLifecycle]_vars

\* Tabs made with and without a working directory.
NextCwd ==
  \/ \E i \in Ops, cwd \in Dirs : CallCreateIn(i, << >>, cwd)
  \/ \E i \in Ops : CallList(i)
  \/ \E i \in Ops : NewSession(i)
  \/ \E i \in Ops : SetOptions(i)
  \/ \E i \in Ops : NewWindow(i)
  \/ \E i \in Ops : CreateReturn(i)
  \/ \E i \in Ops : ListWindows(i)

SpecCwd == InitTabs /\ [][NextCwd]_vars

(***************************************************************************)
(* Properties of the per-session lock                                      *)
(***************************************************************************)
\* Call i went through runExclusive (it passed the initialized check).
Locked(i) == prev[i] # NoPromise
SameWindow(i, j) == arg[i].w = arg[j].w

\* C1: for every mutex key, at most one function passed to runExclusive for
\* that key is executing (started and neither returned nor thrown).
C1_MutualExclusion ==
  \A i, j \in Ops : (i # j /\ Running(i) /\ Running(j)) => Key(i) # Key(j)

\* Two calls contend for one key: one runs its function, the other, made
\* while it ran, waits.
C1_Witness ==
  \E i, j \in Ops : /\ Key(i) = Key(j)
                    /\ Running(i) /\ polls[i] > 0
                    /\ pc[j] = "waiting" /\ arg[j].behind

\* C2: the functions of one key start in the order of the calls (calls are
\* numbered in call order): a later caller has not started before every
\* earlier caller on that key has finished.
C2_Fifo ==
  \A i, j \in Ops :
    (i < j /\ Locked(i) /\ Locked(j) /\ Key(i) = Key(j) /\ (Running(j) \/ Settled(j)))
      => Settled(i)

\* Three calls queued on one key; the first two have finished in turn and
\* the third, which was queued behind them, runs.
C2_Witness ==
  \E k \in Windows :
    /\ \A i \in 1..3 : Locked(i) /\ Key(i) = k
    /\ arg[2].behind /\ arg[3].behind
    /\ Settled(1) /\ Settled(2) /\ Running(3)

\* C3: a call never waits on a call for another session: whenever a call
\* waits for the lock while no promise reaction is queued, an earlier call on
\* its own window id is unfinished.
C3_NoCrossSessionWait ==
  \A j \in Ops :
    (pc[j] = "waiting" /\ ~MicrotaskPending)
      => \E i \in Ops : i < j /\ Locked(i) /\ SameWindow(i, j) /\ ~Settled(i)

\* A call on one window was made and runs to its end while an earlier call
\* on another window is still polling under that window's lock.
C3_Witness ==
  \E i, j \in Ops :
    /\ i < j /\ ~SameWindow(i, j)
    /\ arg[i].kind = "execute" /\ pc[i] = "poll" /\ polls[i] > 0
    /\ Settled(j) /\ result[j].kind = "ok"

\* C4: the lock is released on every exit path.  A call whose function
\* threw has released the lock; a call whose predecessors on the key have
\* all finished (by return or by throw) is not left waiting; and a call
\* ends in an error only when a tmux call of its own failed (its own window
\* is gone).
C4_ReleasedOnEveryExit ==
  /\ \A i \in Ops : Settled(i) /\ Locked(i) => nextResolved[i]
  /\ \A j \in Ops :
       (pc[j] = "waiting" /\ ~MicrotaskPending)
         => \E i \in Ops : i < j /\ Locked(i) /\ Key(i) = Key(j) /\ ~Settled(i)
  /\ \A i \in Ops : result[i].kind = "error" => alive[arg[i].w] # "live"

\* A call threw under the lock, and the call queued behind it on the same
\* key has started.
C4_Witness ==
  \E i, j \in Ops :
    /\ i < j /\ Key(i) = Key(j)
    /\ result[i].kind = "error"
    /\ arg[j].behind /\ (Running(j) \/ Settled(j))

(***************************************************************************)
(* Properties of the bounded command executor                              *)
(***************************************************************************)
IsExecute(i) == arg[i].kind = "execute"
\* The call returned a result (it did not throw).
Returned(i) == Settled(i) /\ result[i].kind = "ok"
\* The lines of a sequence, as a set.
LinesOf(lines) == {lines[k] : k \in 1..Len(lines)}
\* The shell has run the command of call i to its end.
CommandDone(i) == \E code \in 0..255 : <<i, code>> \in shell[arg[i].w].done
\* The shell has printed the end-sentinel line of call i.
EndLinePrinted(i) ==
  \E l \in LinesOf(shell[arg[i].w].pane) :
    Len(l) = 3 /\ l[1] = EndMarker(i) /\ l[2] = ExitCodeMarker /\ l[3].k = "num"
\* The lines a command prints whatever `$?` was.
OwnOutput(c) == IF c = "echo $?" THEN << >> ELSE Output(c, 0)

\* The send-keys calls a window received form whole blocks, one per call.
KeystrokeBlocks ==
  \A w \in Windows : \A a, b, c \in 1..Len(keylog[w]) :
    (a < b /\ b < c /\ keylog[w][a].op = keylog[w][c].op)
      => keylog[w][b].op = keylog[w][a].op

\* C5: execute calls made concurrently on one session are serialized: the
\* keystrokes of each call form one block, and each call returns the output
\* of its own command.
C5_SameSessionSerialized ==
  /\ KeystrokeBlocks
  /\ \A i, j \in Ops :
       (/\ i < j /\ IsExecute(i) /\ IsExecute(j) /\ SameWindow(i, j)
        /\ arg[j].behind /\ Returned(i) /\ Returned(j))
         => /\ LinesOf(OwnOutput(arg[i].command)) \subseteq LinesOf(result[i].output)
            /\ LinesOf(OwnOutput(arg[j].command)) \subseteq LinesOf(result[j].output)

\* An execute call fails only in a step in which tmux cannot reach the
\* call's own window.
OnlyOwnFailure ==
  \A i \in Ops :
    (result[i].kind = "none" /\ result'[i].kind = "error") => ~TmuxOK(arg[i].w)

\* Line l stands in the pane of window w below its first `from` lines, as a
\* whole line or as the beginning of one (a prompt line grows when the next
\* input is typed on it).
ShownIn(l, w, from) ==
  \E k \in (from + 1)..Len(shell[w].pane) :
    /\ Len(l) <= Len(shell[w].pane[k])
    /\ SubSeq(shell[w].pane[k], 1, Len(l)) = l

\* Every line an execute call returns stands in the pane of its own window.
OwnLinesOnly ==
  \A i \in Ops :
    (IsExecute(i) /\ Returned(i))
      => \A l \in LinesOf(result[i].output) : ShownIn(l, arg[i].w, 0)

\* Call i is the only call made on its window.
AloneOnWindow(i) == \A k \in Ops \ {i} : Called(k) => ~SameWindow(i, k)

\* A call that is alone on its window and runs an immediate command returns
\* before the deadline with the command's output, whatever runs elsewhere.
OwnOutputReturned ==
  \A i \in Ops :
    (IsExecute(i) /\ Returned(i) /\ AloneOnWindow(i) /\ Instant(arg[i].command))
      => /\ ~result[i].timed_out
         /\ LinesOf(OwnOutput(arg[i].command)) \subseteq LinesOf(result[i].output)

\* C6: execute calls on different sessions do not disturb each other: a call
\* fails only when its own window cannot be reached, it returns the output
\* of its own command, and the output it returns holds only lines of its own
\* session's buffer.
C6_IsolatedOutputs ==
  [](OwnLinesOnly /\ OwnOutputReturned) /\ [][OnlyOwnFailure]_vars

\* A call has returned the output of its command while a call on another
\* window is between its first keystroke and its return.
C6_Witness ==
  \E i, j \in Ops :
    /\ IsExecute(i) /\ IsExecute(j) /\ ~SameWindow(i, j)
    /\ Running(i) /\ keylog[arg[i].w] # << >>
    /\ Returned(j) /\ AloneOnWindow(j) /\ arg[j].command = "echo hello"
    /\ <<Tok("txt", "hello")>> \in LinesOf(result[j].output)

\* C7: execute returns timed_out=false only after the command has run to
\* its end and the shell has printed the end-sentinel line.
C7_ReturnsAfterCompletion ==
  \A i \in Ops :
    (IsExecute(i) /\ Returned(i) /\ ~result[i].timed_out)
      => CommandDone(i) /\ EndLinePrinted(i)

\* C8: for a command that completed before the deadline, exit_code is the
\* command's exit status, zero or not, and a failing command is reported in
\* exit_code, never raised as an error.
C8_ExitCodeIsStatus ==
  \A i \in Ops : \A code \in 0..255 :
    (IsExecute(i) /\ Settled(i) /\ ~result[i].timed_out
       /\ <<i, code>> \in shell[arg[i].w].done)
      => result[i].kind = "ok" /\ result[i].exit_code = code

\* C9: execute(id, "echo X") returns exactly X and exit_code 0.
C9_EchoReturnsExactlyX ==
  \A i \in Ops :
    (IsExecute(i) /\ Returned(i) /\ arg[i].command = "echo hello")
      => /\ result[i].output = << <<Tok("txt", "hello")>> >>
         /\ result[i].exit_code = 0

\* Call j is the call that follows call i on their window, made after i
\* had returned.
NextOnWindow(i, j) ==
  /\ i < j /\ SameWindow(i, j) /\ ~arg[j].behind
  /\ \A k \in Ops : (i < k /\ k < j) => ~SameWindow(i, k)

\* C10: after execute(id, "false") the call execute(id, "echo $?") returns
\* "1", and after execute(id, "true") it returns "0".
C10_StatusSeenByNextCall ==
  \A i, j \in Ops :
    (/\ IsExecute(i) /\ IsExecute(j) /\ NextOnWindow(i, j)
     /\ Returned(i) /\ Returned(j)
     /\ arg[i].command \in {"false", "true"} /\ arg[j].command = "echo $?")
      => <<Tok("num", ToString(ExitStatus(arg[i].command)))>> \in LinesOf(result[j].output)

(***************************************************************************)
(* Properties of the executor: timeout, sentinels                          *)
(***************************************************************************)
\* The positions in the key log of its window of the keys call i sent.
KeysOf(i) ==
  {n \in 1..Len(keylog[arg[i].w]) : keylog[arg[i].w][n].op = i}
\* The interrupt keys call i sent.
Interrupts(i) == {n \in KeysOf(i) : keylog[arg[i].w][n].keys = "C-c"}
\* The number of pane lines there were when call i sent its first key, and
\* when it sent its end-sentinel echo.
FirstKeyAt(i) == keylog[arg[i].w][Least(KeysOf(i))].at
EndKeyAt(i) ==
  keylog[arg[i].w][Least({n \in KeysOf(i) : keylog[arg[i].w][n].keys = "end"})].at

\* C11: a call whose deadline passed (it sent the interrupt) returns without
\* an error, with timed_out=true and exit_code=130; in every returned result
\* timed_out=true implies exit_code=130.
C11_TimeoutIs130 ==
  \A i \in Ops :
    (IsExecute(i) /\ Settled(i) /\ Locked(i))
      => /\ Interrupts(i) # {} => (result[i].kind = "ok" /\ result[i].timed_out)
         /\ (result[i].kind = "ok" /\ result[i].timed_out) => result[i].exit_code = 130

\* C12: on timeout exactly one C-c is sent, after the last poll and before
\* the final capture; a call that saw the end sentinel in time sends none.
C12_OneInterruptOnTimeout ==
  \A i \in Ops :
    (IsExecute(i) /\ Locked(i))
      => /\ Cardinality(Interrupts(i)) <= 1
         /\ pc[i] \in {"waiting", "sendStart", "sendCmd", "sendEnd", "poll", "interrupt"}
              => Interrupts(i) = {}
         /\ pc[i] = "finalCapture"
              => /\ Cardinality(Interrupts(i)) = 1
                 /\ polls[i] >= 1
                 /\ \A n \in KeysOf(i) : \A c \in Interrupts(i) : n <= c
         /\ Returned(i)
              => /\ result[i].timed_out <=> Cardinality(Interrupts(i)) = 1
                 /\ \A n \in KeysOf(i) : \A c \in Interrupts(i) : n <= c

\* A call has timed out and returned, having sent start, command, end and
\* one C-c.
C12_Witness ==
  \E i \in Ops :
    /\ IsExecute(i) /\ Returned(i) /\ result[i].timed_out
    /\ Cardinality(KeysOf(i)) = 4 /\ Cardinality(Interrupts(i)) = 1

C14_FreshSentinels ==
  /\ \A i, j \in Ops :
       i # j => StartMarker(i) # StartMarker(j) /\ EndMarker(i) # EndMarker(j)
  /\ \A j \in Ops :
       (IsExecute(j) /\ Returned(j))
         => /\ result[j].seen_line # 0 => result[j].seen_line >= EndKeyAt(j)
            /\ result[j].end_line # 0 => result[j].end_line >= EndKeyAt(j)

\* A call returned in time on a window whose buffer holds the end sentinel
\* of an earlier call that timed out.
C14_Witness ==
  \E i, j \in Ops :
    /\ IsExecute(i) /\ IsExecute(j) /\ i < j /\ SameWindow(i, j)
    /\ Returned(i) /\ result[i].timed_out
    /\ Returned(j) /\ ~result[j].timed_out /\ result[j].end_line # 0
    /\ \E k \in 1..FirstKeyAt(j) :
         Includes(shell[arg[j].w].pane[k], EndMarker(i))

\* C15: every line execute returns stands in the buffer after the lines
\* that were there when the call sent its first key, and the line taken as
\* the start line is one of those later lines too.
C15_NoPriorContent ==
  \A j \in Ops :
    (IsExecute(j) /\ Returned(j))
      => /\ result[j].start_line # 0 => result[j].start_line > FirstKeyAt(j)
         /\ \A l \in LinesOf(result[j].output) :
              ShownIn(l, arg[j].w, FirstKeyAt(j))

\* A call returned output on a window whose buffer already held the output
\* and the sentinels of an earlier call.
C15_Witness ==
  \E i, j \in Ops :
    /\ IsExecute(i) /\ IsExecute(j) /\ i < j /\ SameWindow(i, j)
    /\ Returned(i) /\ result[i].output # << >>
    /\ Returned(j) /\ result[j].output # << >>
    /\ FirstKeyAt(j) > result[i].end_line /\ result[i].end_line > 0

(***************************************************************************)
(* Properties of the tool layer                                            *)
(***************************************************************************)
\* The keys call i sent to its window, in order.
KeySeq(i) ==
  LET Mine(e) == e.op = i
      mine == SelectSeq(keylog[arg[i].w], Mine)
  IN [n \in 1..Len(mine) |-> mine[n].keys]
\* Call i sent no key to any window.
NoKeys(i) ==
  \A w \in Windows : \A n \in 1..Len(keylog[w]) : keylog[w][n].op # i
\* The request of call i lacks a field its tool requires.
Missing(i) ==
  /\ Called(i) /\ arg[i].kind \in Tools
  /\ ~(Required(arg[i].kind) \subseteq arg[i].has)
ErrorCodes == {"InvalidParams", "MethodNotFound", "InternalError"}

\* C16: execute on a window id that has no live window fails with the
\* distinct error SessionNotFound, before any keystroke is injected.
C16_SessionNotFound ==
  \A i \in Ops :
    (IsExecute(i) /\ Locked(i) /\ ~arg[i].wasLive /\ Settled(i))
      => /\ result[i].kind # "ok"
         /\ NoKeys(i)
         /\ result[i].code = "SessionNotFound"

\* C17: a request that lacks a required field is answered with an error, and
\* its call never enters the lock chain of any key and sends nothing to tmux.
C17_RejectedBeforeLock ==
  \A i \in Ops :
    Missing(i)
      => /\ pc[i] = "done"
         /\ result[i].kind # "ok"
         /\ result[i].code = IF arg[i].noArguments THEN "InternalError"
                             ELSE "InvalidParams"
         /\ ~Locked(i)
         /\ \A k \in Keys : tails[k] # TailRef(i)
         /\ \A j \in Ops : prev[j] # TailRef(i)
         /\ NoKeys(i)

\* A request without its command was rejected while another call was at
\* work under the lock of the window the request named.
C17_Witness ==
  \E i, j \in Ops :
    /\ Missing(i) /\ arg[i].has = {"window_id"} /\ result[i].code = "InvalidParams"
    /\ Running(j) /\ arg[j].w = arg[i].w

\* C18: a call that failed (a required field missing, an unknown tool, a
\* window tmux cannot reach) is answered with an RPC error that has a code;
\* a successful response never stands for a failure.
C18_FailuresAreRpcErrors ==
  \A i \in Ops :
    pc[i] \in {"cleanup", "done"}
      => /\ result[i].kind = "ok" <=> result[i].code = ""
         /\ result[i].kind # "ok" => result[i].code \in ErrorCodes
         /\ (Missing(i) \/ arg[i].kind \notin Tools) => result[i].kind # "ok"
         /\ (Locked(i) /\ ~arg[i].wasLive
               /\ ~(arg[i].kind = "stop" /\ arg[i].signal \notin {"SIGINT", "SIGTERM"}))
              => result[i].kind # "ok"

\* A manager error and a request for an unknown tool have both been
\* answered.
C18_Witness ==
  \E i, j \in Ops :
    /\ Settled(i) /\ Locked(i) /\ result[i].code = "InternalError"
    /\ pc[j] = "done" /\ result[j].code = "MethodNotFound"

\* C19: start_process sends the command text, then Enter exactly when
\* append_newline is true, never captures or polls, returns started=true, and
\* has released the lock when it returns, whatever the command does.
C19_StartInjectsOnly ==
  \A i \in Ops :
    (arg[i].kind = "start" /\ Locked(i))
      => /\ pc[i] \in {"waiting", "startText", "startEnter", "cleanup", "done"}
         /\ polls[i] = 0
         /\ Settled(i) => nextResolved[i]
         /\ Returned(i)
              => /\ result[i].started
                 /\ KeySeq(i) = IF arg[i].appendNewline THEN <<"text", "Enter">>
                                ELSE <<"text">>

\* start_process has returned, its command runs in the foreground, and the
\* next call on the window is at work under the lock.
C19_Witness ==
  \E i, j \in Ops :
    /\ arg[i].kind = "start" /\ Returned(i) /\ result[i].started
    /\ shell[arg[i].w].fg.op = i
    /\ i < j /\ SameWindow(i, j) /\ Running(j)

\* C20: stop_process sends C-c then the line exit for SIGINT, C-\ then the
\* line exit for SIGTERM, and nothing for any other signal name; it returns
\* success=true in each case.
C20_SignalKeys ==
  \A i \in Ops :
    (arg[i].kind = "stop" /\ Locked(i))
      => LET expected == CASE arg[i].signal = "SIGINT" -> <<"C-c", "exit">>
                           [] arg[i].signal = "SIGTERM" -> <<"C-\\", "exit">>
                           [] OTHER -> << >>
         IN /\ Len(KeySeq(i)) <= Len(expected)
            /\ KeySeq(i) = SubSeq(expected, 1, Len(KeySeq(i)))
            /\ Returned(i) => result[i].success /\ KeySeq(i) = expected
            /\ (Settled(i) /\ expected = << >>) => Returned(i)

\* A stop with SIGTERM and a stop with another signal name have returned.
C20_Witness ==
  \E i, j \in Ops :
    /\ arg[i].kind = "stop" /\ arg[i].signal = "SIGTERM" /\ Returned(i)
    /\ KeySeq(i) = <<"C-\\", "exit">>
    /\ arg[j].kind = "stop" /\ arg[j].signal = "SIGKILL" /\ Returned(j)
    /\ KeySeq(j) = << >>

(***************************************************************************)
(* Start, stop, execute                                                    *)
(***************************************************************************)
\* C21: after start_process and then stop_process on a window, with
\* success=true returned, an execute made afterwards on the same window
\* succeeds.
C21_RoundTrip ==
  \A i, j, k \in Ops :
    ( /\ i < j /\ j < k /\ SameWindow(i, j) /\ SameWindow(j, k)
      /\ arg[i].kind = "start" /\ Returned(i) /\ result[i].started
      /\ arg[j].kind = "stop" /\ Returned(j) /\ result[j].success
      /\ IsExecute(k) /\ ~arg[k].behind /\ Settled(k) )
      => Returned(k)

(***************************************************************************)
(* Properties of the session directory                                     *)
(***************************************************************************)
IsCreate(i) == arg[i].kind = "create"
IsList(i) == arg[i].kind = "list"
\* The entries of a returned list, as a set.
TabsOf(j) == {result[j].tabs[k] : k \in 1..Len(result[j].tabs)}

\* C22: every create call returns the id of the window that this call's
\* new-window made, and two create calls never return the same id, also
\* when the calls overlap.
C22_CreateReturnsOwnId ==
  \A i \in Ops :
    (IsCreate(i) /\ Returned(i))
      => /\ result[i].window_id = arg[i].w
         /\ result[i].window_id \in Windows
         /\ \A j \in Ops :
              (j # i /\ IsCreate(j) /\ Returned(j))
                => result[j].window_id # result[i].window_id

\* Two create calls overlapped: the second was made before the first had
\* returned, and the first returned after the second's window was made.
C22_Witness ==
  \E i, j \in Ops :
    /\ i < j /\ IsCreate(i) /\ IsCreate(j)
    /\ i \notin arg[j].after
    /\ Returned(i) /\ Returned(j)
    /\ result[i].window_id = 1 /\ result[j].window_id = 2

\* C23: a list call made after create(name) has returned an id (the window
\* not closed since) has an entry with that id and exactly that name.
C23_ListKeepsName ==
  \A i, j \in Ops :
    ( /\ IsCreate(i) /\ Returned(i) /\ IsList(j) /\ Returned(j)
      /\ i \in arg[j].after
      /\ \A k \in Ops : ~(arg[k].kind = "close" /\ arg[k].w = result[i].window_id) )
      => \E t \in TabsOf(j) :
           /\ t.window_id = <<WindowId(result[i].window_id)>>
           /\ t.name = arg[i].name

\* A tab named with a '#' and a tab character was made and then listed.
C23_Witness ==
  \E i, j \in Ops :
    /\ IsCreate(i) /\ Returned(i) /\ IsList(j) /\ Returned(j)
    /\ i \in arg[j].after
    /\ arg[i].name = <<"#", "\t">>
    /\ \E t \in TabsOf(j) : t.name = <<"#", "\t">>

\* C24: a list call made first of all, before the server was started, starts
\* it and returns the empty list.
C24_FirstListIsEmpty ==
  \A j \in Ops :
    (IsList(j) /\ j = 1 /\ pc[j] = "done")
      => /\ initialized
         /\ Returned(j)
         /\ result[j].tabs = << >>

\* C25: close on an id whose window is not there fails with the error
\* SessionNotFound.
C25_CloseFailsNotFound ==
  \A i \in Ops :
    (arg[i].kind = "close" /\ pc[i] = "done" /\ ~arg[i].wasLive)
      => /\ result[i].kind # "ok"
         /\ result[i].code = "SessionNotFound"

(***************************************************************************)
(* Properties of the readers                                               *)
(***************************************************************************)
IsReadLogs(i) == arg[i].kind = "read"
IsReader(i) == arg[i].kind \in {"read", "output"}

\* C26: read_logs_from_tab returns truncated=true exactly when the pane held
\* more lines than the call returned.
C26_TruncatedIffMore ==
  \A i \in Ops :
    (IsReadLogs(i) /\ Returned(i))
      => (result[i].truncated <=> result[i].held > result[i].returned_lines)

\* C27: read_logs_from_tab with lines = N > 0 returns the last line the pane
\* held at the capture (the line may have been typed on since), and
\* returned_lines is at most N.
C27_LastLinesAtMostN ==
  \A i \in Ops :
    (IsReadLogs(i) /\ Returned(i) /\ arg[i].lines > 0)
      => LET out == result[i].output
             last == shell[arg[i].w].pane[result[i].held]
         IN /\ out # << >>
            /\ Len(out[Len(out)]) <= Len(last)
            /\ out[Len(out)] = SubSeq(last, 1, Len(out[Len(out)]))
            /\ result[i].returned_lines <= arg[i].lines

\* C28: a capture made by readOutput or readLogsFromTab on a window never
\* happens between the first keystroke and the return of an execute,
\* start_process or stop_process call on the same window.
C28_CaptureUnderLock ==
  [][ \A i, j \in Ops :
        ( /\ IsReader(i) /\ pc[i] \in {"waiting", "readCapture"}
          /\ pc'[i] = "cleanup" /\ result'[i].kind = "ok"
          /\ j # i /\ SameWindow(i, j)
          /\ arg[j].kind \in {"execute", "start", "stop"}
          /\ KeySeq(j) # << >> )
          => Settled(j) ]_vars

\* Both readers have captured a window on which an execute had returned
\* before.
C28_Witness ==
  \E i, j, k \in Ops :
    /\ IsExecute(i) /\ Returned(i) /\ SameWindow(i, j) /\ SameWindow(i, k)
    /\ arg[j].kind = "read" /\ arg[j].behind /\ Returned(j)
    /\ arg[k].kind = "output" /\ arg[k].behind /\ Returned(k)

(***************************************************************************)
(* Progress                                                                *)
(***************************************************************************)
\* C29: every execute call that runs under the lock returns in the end,
\* completed or timed out, also when its command prints nothing and ignores
\* the interrupt.
C29_ExecuteReturns ==
  \A i \in Ops : (IsExecute(i) /\ Running(i)) ~> Settled(i)

\* An execute timed out and returned while its command, which ignored the
\* interrupt, still runs.
C29_Witness ==
  \E i \in Ops :
    /\ IsExecute(i) /\ Returned(i) /\ result[i].timed_out
    /\ IgnoresInt(arg[i].command)
    /\ shell[arg[i].w].fg.op = i

\* C30: every call that waits for a window's lock starts in the end, and a
\* waiting call is never failed, rejected or dropped: it leaves the wait
\* only by starting.
C30_NoStarvation ==
  /\ \A i \in Ops : (pc[i] = "waiting") ~> Running(i)
  /\ [][ \A i \in Ops :
           pc[i] = "waiting"
             => pc'[i] \in {"waiting", FirstStep(arg[i].kind)} ]_vars

\* The third call on a window runs after it waited behind two others.
C30_Witness ==
  \E i, j, k \in Ops :
    /\ i < j /\ j < k /\ SameWindow(i, j) /\ SameWindow(j, k)
    /\ arg[j].behind /\ arg[k].behind
    /\ Settled(i) /\ Settled(j) /\ Running(k)

(***************************************************************************)
(* Properties of the lock's map, of first use and of the parsing.          *)
(***************************************************************************)
\* C31: the map `tails` holds an entry for a key only from the first
\* runExclusive on it, and holds none once every call made on the key has
\* completed.
C31_IdleEntryRemoved ==
  \A k \in Keys :
    (\A i \in Ops : (Called(i) /\ Key(i) = k) => pc[i] = "done")
      => tails[k] = NoPromise

\* C32: when two create or list calls both find the manager not initialized
\* and both run startServer, the later new-session meets the session of the
\* earlier one, its error is ignored, both calls succeed, one session
\* exists and initialized is true once a call has returned.
C32_ConcurrentFirstUse ==
  /\ \A i \in Ops :
       (arg[i].newSession # "none" /\ pc[i] = "done")
         => Returned(i) /\ initialized /\ session
  /\ Cardinality({i \in Ops : arg[i].newSession = "created"}) <= 1

\* Two calls ran startServer; the later one met the duplicate session, and
\* both have returned.
C32_Witness ==
  \E i, j \in Ops :
    /\ arg[i].newSession = "created" /\ arg[j].newSession = "duplicate"
    /\ Returned(i) /\ Returned(j)
    /\ IsCreate(i) /\ IsList(j)

\* C33: a create call with a cwd that does not exist fails with
\* InvalidArgument and makes no window.
C33_MissingCwdRejected ==
  \A i \in Ops :
    (IsCreate(i) /\ arg[i].cwd = "missing" /\ pc[i] = "done")
      => /\ result[i].kind # "ok"
         /\ result[i].code = "InvalidArgument"
         /\ arg[i].w = 0

\* What trim() and the ANSI stripping can make of a captured line.
Variants(line) ==
  LET ts == {line, TrimStart(line), TrimEnd(line), Trim(line)}
  IN ts \cup {StripAnsiLine(t) : t \in ts}

\* The result `res` of call i was extracted from the dump `lines` as
\* described: start line, end line, and output from the lines between.
Extracted(lines, i, res) ==
  LET s == res.start_line
      e == res.end_line
      last == IF e # 0 THEN e - 1 ELSE Len(lines)
      IsStart(k) == Trim(lines[k]) = <<StartMarker(i)>>
      HasEnd(k) == Includes(lines[k], EndMarker(i))
  IN /\ IF s = 0 THEN \A k \in 1..Len(lines) : ~IsStart(k)
                 ELSE IsStart(s) /\ \A k \in 1..(s - 1) : ~IsStart(k)
     /\ IF e = 0 THEN \A k \in (s + 1)..Len(lines) : ~HasEnd(k)
                 ELSE e > s /\ HasEnd(e) /\ \A k \in (s + 1)..(e - 1) : ~HasEnd(k)
     /\ s = 0 => res.output = << >>
     /\ \A n \in 1..Len(res.output) :
          \E k \in (s + 1)..last : res.output[n] \in Variants(lines[k])

\* C34: when an execute call returns, its start line is the first line of
\* the captured buffer equal, trimmed, to its start sentinel, its end line
\* the first later line that contains its end sentinel, and its output is
\* made of lines strictly between the two only; the sentinel lines are found
\* in the unfiltered buffer.
C34_OutputExtraction ==
  [][ \A i \in Ops :
        (IsExecute(i) /\ pc[i] \in {"poll", "finalCapture"}
           /\ pc'[i] = "cleanup" /\ result'[i].kind = "ok")
          => Extracted(Capture(shell[CaptureTarget(arg[i].w)]), i, result'[i]) ]_vars

\* An execute call returned output taken from between its start line and an
\* end line that the prompt/echo filter would have removed.
C34_Witness ==
  \E i \in Ops :
    /\ IsExecute(i) /\ Returned(i) /\ ~result[i].timed_out
    /\ result[i].start_line > 0
    /\ result[i].end_line > result[i].start_line + 1
    /\ result[i].output # << >>
    /\ LET lines == Capture(shell[arg[i].w])
       IN /\ result[i].end_line <= Len(lines)
          /\ ~KeepLine(lines[result[i].end_line], arg[i].command)

\* xs is a prefix of ys.
IsPrefix(xs, ys) == Len(xs) <= Len(ys) /\ xs = SubSeq(ys, 1, Len(xs))
\* The keys of a whole execute call.
Frame(timed) ==
  IF timed THEN <<"start", "cmd", "end", "C-c">> ELSE <<"start", "cmd", "end">>

\* C35: an execute call sends to its window the start-sentinel echo, the
\* command and the end-sentinel echo, in that order, and one C-c after them
\* only when it timed out; it sends no other key and none to another window.
C35_KeystrokeFrame ==
  \A i \in Ops :
    (IsExecute(i) /\ Locked(i))
      => /\ IsPrefix(KeySeq(i), Frame(TRUE))
         /\ Returned(i) => KeySeq(i) = Frame(result[i].timed_out)
         /\ \A w \in Windows \ {arg[i].w} :
              \A n \in 1..Len(keylog[w]) : keylog[w][n].op # i

\* Two execute calls on two windows have returned, one of them timed out:
\* each window got the frame of its own call.
C35_Witness ==
  \E i, j \in Ops :
    /\ IsExecute(i) /\ IsExecute(j) /\ arg[i].w = 1 /\ arg[j].w = 2
    /\ Returned(i) /\ Returned(j)
    /\ result[j].timed_out /\ ~result[i].timed_out
    /\ KeySeq(i) = Frame(FALSE) /\ KeySeq(j) = Frame(TRUE)

\* C36: the name a create call returns is the name that was asked for, also
\* when the name holds a '#'.
C36_ReturnsRequestedName ==
  \A i \in Ops :
    (IsCreate(i) /\ Returned(i) /\ arg[i].name # << >>)
      => result[i].name = arg[i].name

\* The methods that throw when the manager is not initialized.
Guarded == {"execute", "read", "output", "start", "stop", "close"}
\* Call i is made in this step.
Made(i) == pc[i] = "idle" /\ pc'[i] # "idle"

\* C37: while the manager is not initialized, execute, the two reads,
\* start, stop and close fail at once with 'not initialized', take no lock
\* and call no tmux; create and list start the server first; stopServer
\* never throws, and when kill-server fails it leaves initialized as it was.
C37_LifecycleGuard ==
  [][ \A i \in Ops :
        /\ (Made(i) /\ ~initialized /\ arg'[i].kind \in Guarded)
             => /\ pc'[i] = "done"
                /\ result'[i].kind = "not initialized"
                /\ UNCHANGED <<tails, prev, keylog, shell, alive, session>>
        /\ (Made(i) /\ ~initialized /\ arg'[i].kind \in {"create", "list"})
             => pc'[i] = "newSession"
        /\ (pc'[i] # pc[i] /\ pc'[i] \in {"newWindow", "listWindows"})
             => initialized'
        /\ (arg'[i].kind = "stopServer" /\ pc'[i] = "done")
             => /\ result'[i].kind = "ok"
                /\ (pc[i] = "killServer" /\ session' = session)
                     => initialized' = initialized ]_vars

\* The server ran, stopServer stopped it, and a guarded call made after that
\* has failed with 'not initialized'.
C37_Witness ==
  \E k, j, i \in Ops :
    /\ k < j /\ j < i
    /\ IsCreate(k) /\ Returned(k)
    /\ arg[j].kind = "stopServer" /\ pc[j] = "done" /\ ~initialized
    /\ arg[i].kind \in Guarded /\ pc[i] = "done"
    /\ result[i].kind = "not initialized"

\* Call i runs under the lock and its window is gone.
Orphaned(i) == Running(i) /\ alive[arg[i].w] = "closed"

\* C38: closing a window takes no lock, so a window can go while an execute
\* call polls it.  The next tmux call of a call whose window is gone fails:
\* the call ends with an error and its lock is released (the one step
\* without a tmux call is the deadline test that ends the poll loop); a call
\* that waited behind a failed call is not held back by it.
C38_CloseUnderExecute ==
  [][ /\ \A w \in Windows :
           (alive[w] = "live" /\ alive'[w] = "closed")
             => UNCHANGED <<tails, prev, nextResolved, tailResolved>>
      /\ \A i \in Ops :
           (Orphaned(i) /\ (pc'[i] # pc[i] \/ polls'[i] # polls[i]))
             => \/ /\ pc'[i] = "cleanup"
                   /\ result'[i].kind = "error"
                   /\ nextResolved'[i]
                \/ /\ pc[i] = "poll" /\ pc'[i] = "interrupt"
                   /\ keylog' = keylog
      /\ \A i, j \in Ops :
           (pc[i] = "done" /\ result[i].kind = "error"
              /\ pc[j] = "waiting" /\ prev[j] = TailRef(i))
             => MayEnter(j) ]_vars

\* An execute call had sent its three lines and was polling when its window
\* was closed; it failed, and the call queued behind it failed after it.
C38_Witness ==
  \E i, j \in Ops :
    /\ i < j /\ Key(i) = Key(j)
    /\ IsExecute(i) /\ arg[i].wasLive /\ KeySeq(i) = Frame(FALSE)
    /\ Settled(i) /\ result[i].kind = "error"
    /\ arg[j].behind /\ Settled(j) /\ result[j].kind = "error"
    /\ KeySeq(j) = << >>

\* C39: in every result of read_logs_from_tab, returned_lines is the number
\* of lines of the returned content.
C39_ReturnedLinesCountsContent ==
  \A i \in Ops :
    (IsReadLogs(i) /\ Returned(i))
      => result[i].returned_lines = Len(result[i].output)

====
